---- MODULE Spec2Model ----
(***************************************************************************)
(* A model of the todo application's core: the reducer (TodoReducer.ts),   *)
(* the provider that wires the reducer to local storage (TodoContext.tsx), *)
(* and the persistence adapter (utils/localStorage.ts).                    *)
(*                                                                         *)
(* Conventions.                                                            *)
(*  - A JavaScript string that the code inspects character by character    *)
(*    (title, description, searchText, and a category name under the       *)
(*    category manager) is a sequence of one-character strings; other      *)
(*    strings (ids, colours) are strings.                                  *)
(*  - An optional value is a set with at most one element: Undefined is    *)
(*    the JavaScript undefined (an absent key reads as undefined too), and *)
(*    Some(v) is the value v.                                              *)
(*  - An ISO 8601 instant or date is the number of clock ticks it denotes; *)
(*    new Date().toISOString() is the current value of the clock `now`.    *)
(***************************************************************************)
EXTENDS Integers, Sequences, FiniteSets, TLC

VARIABLES
    state,          \* the provider's reducer state (TodoState)
    isInitialized,  \* the provider's isInitialized flag
    slot,           \* the content of the storage slot 'todo-app-state'
    phase,          \* "mounted": first render committed, its effects pending; "ready"
    dirty,          \* a render was committed whose save effect has not run yet
    lastLoad,       \* how the startup Load of this session ended
    lastSave,       \* how the latest Save attempt of this session ended
    wrote,          \* a write to the slot succeeded in this session
    touched,        \* a facade function was called in this session
    prevSession,    \* the state the previous session ended with (while mounting)
    now,            \* the wall clock
    prev,           \* the reducer's input state in the latest reducer call
    lastAction,     \* the action of the latest reducer call
    steps,          \* number of reducer calls made so far
    hist,           \* the latest adapter calls, oldest first (adapter specification)
    view,           \* the list the todo list component displays
    queue,          \* the actions dispatched and not yet reduced (facade specification)
    log,            \* every action dispatched, in dispatch order (facade specification)
    editing         \* App's editingTodo: the todo open in the form, or none

vars == <<state, isInitialized, slot, phase, dirty, lastLoad, lastSave, wrote, touched,
          prevSession, now, prev, lastAction, steps, hist, view, queue, log, editing>>

----------------------------------------------------------------------------
(* Bounds of the model *)

\* the clock runs from 0 to MaxTime
MaxTime == 1
\* a run makes at most MaxSteps reducer calls
MaxSteps == 3
\* the adapter specification remembers the latest MaxHist adapter calls
MaxHist == 3
\* the derived view is computed over at most MaxTodos todos
MaxTodos == 3

----------------------------------------------------------------------------
(* Data model: types/todo.ts *)

Undefined == {}
Some(v) == {v}

Priority == {"low", "medium", "high"}
SortBy == {"dueDate", "priority", "createdAt"}

TodoFields == {"id", "title", "description", "completed", "priority", "dueDate",
               "category", "tags", "createdAt", "updatedAt"}
OptionalTodoFields == {"description", "dueDate", "category"}
CategoryFields == {"id", "name", "color"}
FilterFields == {"searchText", "category", "priority", "showCompleted", "sortBy"}
OptionalFilterFields == {"category", "priority"}

\* initialState; the filter's absent category and priority read as undefined
initialState ==
    [todos |-> <<>>,
     categories |-> <<>>,
     filter |-> [searchText |-> <<>>, category |-> Undefined, priority |-> Undefined,
                 showCompleted |-> TRUE, sortBy |-> "createdAt"]]

----------------------------------------------------------------------------
(* Inputs: the values callers pass to the facade *)

TodoIds == {"1", "2"}
MissingId == "non-existent"
CategoryIds == {"cat1", "cat2"}

\* the todo the form builds when only a title is entered, at instant t
PlainTodo(id, t) ==
    [id |-> id, title |-> <<"a">>, description |-> Undefined, completed |-> FALSE,
     priority |-> "medium", dueDate |-> Undefined, category |-> Undefined,
     tags |-> <<>>, createdAt |-> t, updatedAt |-> t]

\* a todo with every field filled in, at instant t
FullTodo(id, t) ==
    [id |-> id, title |-> <<"A", "b">>, description |-> Some(<<"b", "c">>),
     completed |-> FALSE, priority |-> "high", dueDate |-> Some(1),
     category |-> Some("Work"), tags |-> <<"x", "x">>, createdAt |-> t,
     updatedAt |-> t]

NewTodos(t) == {PlainTodo(id, t) : id \in TodoIds} \cup {FullTodo(id, t) : id \in TodoIds}

\* partial updates (Partial<Todo>): a title alone, the six fields the edit
\* form carries, a partial that itself carries updatedAt and completed, and a
\* partial that carries id and createdAt
TitleUpdate == [title |-> <<"c">>]
FormUpdate == [title |-> <<"a", "b">>, description |-> Undefined, priority |-> "low",
               dueDate |-> Some(2), category |-> Undefined, tags |-> <<"y">>]
StampUpdate == [updatedAt |-> 0, completed |-> TRUE]
KeyUpdate == [id |-> "2", createdAt |-> 1]
Updates == {TitleUpdate, FormUpdate, StampUpdate, KeyUpdate}

NewCategories == {[id |-> "cat1", name |-> "Work", color |-> "#ff0000"],
                  [id |-> "cat2", name |-> "work", color |-> "#3b82f6"]}

\* partial filters, as the filter panel's handlers build them
FilterUpdates == {[searchText |-> <<"a">>],
                  [category |-> Some("Work")],
                  [showCompleted |-> FALSE, sortBy |-> "priority"],
                  [searchText |-> <<>>, category |-> Undefined, priority |-> Undefined,
                   showCompleted |-> TRUE, sortBy |-> "createdAt"]}

\* a full state, as a LOAD_STATE payload
SavedState ==
    [todos |-> <<[FullTodo("1", 0) EXCEPT !.completed = TRUE]>>,
     categories |-> <<[id |-> "cat1", name |-> "Work", color |-> "#ff0000"]>>,
     filter |-> [searchText |-> <<"b">>, category |-> Some("Work"),
                 priority |-> Some("high"), showCompleted |-> TRUE,
                 sortBy |-> "dueDate"]]

----------------------------------------------------------------------------
(* The reducer: context/TodoReducer.ts *)

\* { ...base, ...updates }: the keys of both, updates winning
Spread(base, updates) ==
    [f \in (DOMAIN base) \cup (DOMAIN updates) |->
        IF f \in DOMAIN updates THEN updates[f] ELSE base[f]]

\* Array.prototype.map is written [i \in 1..Len(xs) |-> f(xs[i])] and
\* Array.prototype.filter is SelectSeq(xs, keep).

\* AddTodo that puts the new todo first
AddTodoFront(s, todo) == [s EXCEPT !.todos = <<todo>> \o s.todos]

AddTodo(s, todo) == [s EXCEPT !.todos = Append(s.todos, todo)]

\* UpdateTodo with the partial spread last, over the new updatedAt
UpdateTodoPartialLast(s, id, updates, t) ==
    LET upd(todo) == IF todo.id = id
                     THEN Spread(Spread(todo, [updatedAt |-> t]), updates)
                     ELSE todo
    IN  [s EXCEPT !.todos = [i \in 1..Len(s.todos) |-> upd(s.todos[i])]]

UpdateTodo(s, id, updates, t) ==
    LET upd(todo) == IF todo.id = id
                     THEN Spread(Spread(todo, updates), [updatedAt |-> t])
                     ELSE todo
    IN  [s EXCEPT !.todos = [i \in 1..Len(s.todos) |-> upd(s.todos[i])]]

\* DeleteTodo that removes only the first todo carrying the id
DeleteTodoFirstMatch(s, id) ==
    LET first == {i \in 1..Len(s.todos) :
                     /\ s.todos[i].id = id
                     /\ \A j \in 1..(i - 1) : s.todos[j].id # id}
    IN  [s EXCEPT !.todos = [k \in 1..(Len(s.todos) - Cardinality(first)) |->
                                s.todos[IF k \in first \/ \E i \in first : i < k
                                        THEN k + 1 ELSE k]]]

DeleteTodo(s, id) ==
    LET keep(todo) == todo.id # id
    IN  [s EXCEPT !.todos = SelectSeq(s.todos, keep)]

\* ToggleTodo that stamps updatedAt on every todo
ToggleTodoStampAll(s, id, t) ==
    LET tog(todo) == IF todo.id = id
                     THEN Spread(todo, [completed |-> ~todo.completed, updatedAt |-> t])
                     ELSE Spread(todo, [updatedAt |-> t])
    IN  [s EXCEPT !.todos = [i \in 1..Len(s.todos) |-> tog(s.todos[i])]]

\* ToggleTodo that marks the todo completed instead of flipping the flag
ToggleTodoComplete(s, id, t) ==
    LET tog(todo) == IF todo.id = id
                     THEN Spread(todo, [completed |-> TRUE, updatedAt |-> t])
                     ELSE todo
    IN  [s EXCEPT !.todos = [i \in 1..Len(s.todos) |-> tog(s.todos[i])]]

ToggleTodo(s, id, t) ==
    LET tog(todo) == IF todo.id = id
                     THEN Spread(todo, [completed |-> ~todo.completed, updatedAt |-> t])
                     ELSE todo
    IN  [s EXCEPT !.todos = [i \in 1..Len(s.todos) |-> tog(s.todos[i])]]

AddCategory(s, category) == [s EXCEPT !.categories = Append(s.categories, category)]

\* DeleteCategory that also clears the category of the todos and of the
\* filter that name a deleted category
DeleteCategoryCascade(s, id) ==
    LET keep(cat) == cat.id # id
        gone == {s.categories[i].name : i \in {j \in 1..Len(s.categories) :
                                                  s.categories[j].id = id}}
        orphan(todo) == IF todo.category \subseteq gone
                        THEN [todo EXCEPT !.category = Undefined] ELSE todo
    IN  [s EXCEPT !.categories = SelectSeq(s.categories, keep),
                  !.todos = [i \in 1..Len(s.todos) |-> orphan(s.todos[i])],
                  !.filter = IF s.filter.category \subseteq gone
                             THEN [s.filter EXCEPT !.category = Undefined]
                             ELSE s.filter]

DeleteCategory(s, id) ==
    LET keep(cat) == cat.id # id
    IN  [s EXCEPT !.categories = SelectSeq(s.categories, keep)]

\* SetFilter that merges the partial into the default filter
SetFilterOverDefault(s, partial) ==
    [s EXCEPT !.filter = Spread(initialState.filter, partial)]

SetFilter(s, partial) == [s EXCEPT !.filter = Spread(s.filter, partial)]

\* LoadState that keeps the todos of the prior state before the payload's
LoadStateKeepTodos(s, payload) == [payload EXCEPT !.todos = s.todos \o payload.todos]

LoadState(s, payload) == payload

\* todoReducer whose default case returns the initial state
todoReducerResetOnUnknown(s, a, t) ==
    CASE a.type = "ADD_TODO" -> AddTodo(s, a.payload)
      [] a.type = "UPDATE_TODO" -> UpdateTodo(s, a.payload.id, a.payload.updates, t)
      [] a.type = "DELETE_TODO" -> DeleteTodo(s, a.payload)
      [] a.type = "TOGGLE_TODO" -> ToggleTodo(s, a.payload, t)
      [] a.type = "ADD_CATEGORY" -> AddCategory(s, a.payload)
      [] a.type = "DELETE_CATEGORY" -> DeleteCategory(s, a.payload)
      [] a.type = "SET_FILTER" -> SetFilter(s, a.payload)
      [] a.type = "LOAD_STATE" -> LoadState(s, a.payload)
      [] OTHER -> initialState

\* todoReducer(state, action) throws: the cases that spread, map or filter
\* state.todos (state.categories) throw a TypeError when the state has no
\* such sequence; object spreads and the default case throw on nothing
todoReducerThrows(s, a) ==
    CASE a.type \in {"ADD_TODO", "UPDATE_TODO", "DELETE_TODO", "TOGGLE_TODO"} ->
             "todos" \notin DOMAIN s
      [] a.type \in {"ADD_CATEGORY", "DELETE_CATEGORY"} -> "categories" \notin DOMAIN s
      [] OTHER -> FALSE

\* todoReducer(state, action), t being the value new Date().toISOString() yields
todoReducer(s, a, t) ==
    CASE a.type = "ADD_TODO" -> AddTodo(s, a.payload)
      [] a.type = "UPDATE_TODO" -> UpdateTodo(s, a.payload.id, a.payload.updates, t)
      [] a.type = "DELETE_TODO" -> DeleteTodo(s, a.payload)
      [] a.type = "TOGGLE_TODO" -> ToggleTodo(s, a.payload, t)
      [] a.type = "ADD_CATEGORY" -> AddCategory(s, a.payload)
      [] a.type = "DELETE_CATEGORY" -> DeleteCategory(s, a.payload)
      [] a.type = "SET_FILTER" -> SetFilter(s, a.payload)
      [] a.type = "LOAD_STATE" -> LoadState(s, a.payload)
      [] OTHER -> s

\* no reducer call has been made yet
NoAction == [type |-> "none", at |-> 0, again |-> FALSE]

----------------------------------------------------------------------------
(* The persistence adapter: utils/localStorage.ts.  The slot holds null    *)
(* (no item) or a text; a text either fails to parse ('invalid json') or   *)
(* is the JSON document of a state.                                        *)

Null == {}
NoItem == [kind |-> "null"]
InvalidJson == [kind |-> "text", valid |-> FALSE]
JsonText(doc) == [kind |-> "text", valid |-> TRUE, doc |-> doc]

\* JSON.stringify of an object: a key whose value is undefined is left out,
\* any other optional value is written as the value itself
StringifyObject(obj, optional) ==
    [f \in {g \in DOMAIN obj : ~(g \in optional /\ obj[g] = Undefined)} |->
        IF f \in optional THEN CHOOSE v \in obj[f] : TRUE ELSE obj[f]]

\* JSON.parse of an object, read through the keys of its type: a key that is
\* not in the document reads as undefined
ParseObject(doc, fields, optional) ==
    [f \in fields |->
        IF f \in optional
        THEN (IF f \in DOMAIN doc THEN Some(doc[f]) ELSE Undefined)
        ELSE doc[f]]

StringifyTodo(todo) == StringifyObject(todo, OptionalTodoFields)
ParseTodo(doc) == ParseObject(doc, TodoFields, OptionalTodoFields)

JSONstringify(s) ==
    JsonText([todos |-> [i \in 1..Len(s.todos) |-> StringifyTodo(s.todos[i])],
              categories |-> s.categories,
              filter |-> StringifyObject(s.filter, OptionalFilterFields)])

\* JSON.parse(text): threw, or the value
JSONparse(text) ==
    IF ~text.valid
    THEN [threw |-> TRUE, value |-> Null]
    ELSE [threw |-> FALSE,
          value |-> Some([todos |-> [i \in 1..Len(text.doc.todos) |-> ParseTodo(text.doc.todos[i])],
                          categories |-> text.doc.categories,
                          filter |-> ParseObject(text.doc.filter, FilterFields,
                                                 OptionalFilterFields)])]

\* localStorage.setItem, getItem, removeItem; `fails`: the storage raises
setItem(sl, text, fails) ==
    IF fails THEN [threw |-> TRUE, slot |-> sl] ELSE [threw |-> FALSE, slot |-> text]
getItem(sl, fails) ==
    IF fails THEN [threw |-> TRUE, value |-> NoItem] ELSE [threw |-> FALSE, value |-> sl]
removeItem(sl, fails) ==
    IF fails THEN [threw |-> TRUE, slot |-> sl] ELSE [threw |-> FALSE, slot |-> NoItem]

\* saveToLocalStorage that leaves an item already in the slot in place
saveKeepingExisting(sl, s, fails) ==
    LET w == setItem(sl, IF sl = NoItem THEN JSONstringify(s) ELSE sl, fails)
    IN  [slot |-> w.slot, raised |-> FALSE, logged |-> w.threw, value |-> Null]

\* saveToLocalStorage that removes the item before it writes the new one
saveRemovingFirst(sl, s, fails) ==
    LET w == setItem(NoItem, JSONstringify(s), fails)
    IN  [slot |-> w.slot, raised |-> FALSE, logged |-> w.threw, value |-> Null]

\* saveToLocalStorage without the try block
saveUnguarded(sl, s, fails) ==
    LET w == setItem(sl, JSONstringify(s), fails)
    IN  [slot |-> w.slot, raised |-> w.threw, logged |-> FALSE, value |-> Null]

\* saveToLocalStorage(state): try { setItem(KEY, JSON.stringify(state)) }
\* catch { console.error }
saveToLocalStorage(sl, s, fails) ==
    LET w == setItem(sl, JSONstringify(s), fails)
    IN  [slot |-> w.slot, raised |-> FALSE, logged |-> w.threw, value |-> Null]

\* loadFromLocalStorage with JSON.parse outside the try block
loadParsingUnguarded(sl, fails) ==
    LET r == getItem(sl, fails)
    IN  IF r.threw
        THEN [slot |-> sl, raised |-> FALSE, logged |-> TRUE, value |-> Null]
        ELSE IF r.value = NoItem
        THEN [slot |-> sl, raised |-> FALSE, logged |-> FALSE, value |-> Null]
        ELSE LET p == JSONparse(r.value)
             IN  [slot |-> sl, raised |-> p.threw, logged |-> FALSE,
                  value |-> IF p.threw THEN Null ELSE p.value]

\* loadFromLocalStorage(): try { item = getItem(KEY); if (!item) return null;
\* return JSON.parse(item) } catch { console.error; return null }
loadFromLocalStorage(sl, fails) ==
    LET r == getItem(sl, fails)
    IN  IF r.threw
        THEN [slot |-> sl, raised |-> FALSE, logged |-> TRUE, value |-> Null]
        ELSE IF r.value = NoItem
        THEN [slot |-> sl, raised |-> FALSE, logged |-> FALSE, value |-> Null]
        ELSE LET p == JSONparse(r.value)
             IN  [slot |-> sl, raised |-> FALSE, logged |-> p.threw,
                  value |-> IF p.threw THEN Null ELSE p.value]

\* clearLocalStorage without the try block
clearUnguarded(sl, fails) ==
    LET w == removeItem(sl, fails)
    IN  [slot |-> w.slot, raised |-> w.threw, logged |-> FALSE, value |-> Null]

\* clearLocalStorage(): try { removeItem(KEY) } catch { console.error }
clearLocalStorage(sl, fails) ==
    LET w == removeItem(sl, fails)
    IN  [slot |-> w.slot, raised |-> FALSE, logged |-> w.threw, value |-> Null]

----------------------------------------------------------------------------
(* The provider: context/TodoContext.tsx *)

\* LoadEffect with the dispatch of LOAD_STATE left out
LoadEffectNoDispatch(s, loaded, t) == [state |-> s, isInitialized |-> TRUE]

\* LoadEffect that dispatches LOAD_STATE with a sample state when nothing was
\* loaded
LoadEffectSeeded(s, loaded, t) ==
    [state |-> todoReducer(s, [type |-> "LOAD_STATE",
                               payload |-> IF loaded # Null
                                           THEN CHOOSE v \in loaded : TRUE
                                           ELSE SavedState], t),
     isInitialized |-> TRUE]

\* the load effect's two queued updates, applied to the first render's state:
\* dispatch(LOAD_STATE) when a value was loaded, then setIsInitialized(true)
LoadEffect(s, loaded, t) ==
    [state |-> IF loaded # Null
               THEN todoReducer(s, [type |-> "LOAD_STATE",
                                    payload |-> CHOOSE v \in loaded : TRUE], t)
               ELSE s,
     isInitialized |-> TRUE]

\* SaveEffect with a stale closure: it saves the state of the first render
SaveEffectStale(sl, s, init, fails) ==
    IF init
    THEN [called |-> TRUE] @@ saveToLocalStorage(sl, initialState, fails)
    ELSE [called |-> FALSE, slot |-> sl, raised |-> FALSE, logged |-> FALSE,
          value |-> Null]

\* the save effect of a render that saw state s and flag init:
\* if (isInitialized) saveToLocalStorage(state)
SaveEffect(sl, s, init, fails) ==
    IF init
    THEN [called |-> TRUE] @@ saveToLocalStorage(sl, s, fails)
    ELSE [called |-> FALSE, slot |-> sl, raised |-> FALSE, logged |-> FALSE,
          value |-> Null]

SaveOutcome(r, before) ==
    IF ~r.called THEN before ELSE IF r.logged THEN "failed" ELSE "ok"

LoadOutcome(sl, r) ==
    IF r.value # Null THEN "value"
    ELSE IF ~r.logged THEN "absent"
    ELSE IF sl = InvalidJson THEN "corrupt" ELSE "raised"

\* the slot holds the JSON document of a state
HoldsState(sl) == sl # NoItem /\ sl # InvalidJson

ReducerIdle == UNCHANGED <<prev, lastAction, hist, view, queue, log, editing>>

\* The effects of the first commit, in their order: the load effect, then the
\* save effect of the first render (which saw the initial state and
\* isInitialized = false); the queued updates are applied in one re-render.
\* An exception that leaves an effect unmounts the tree (phase "crashed").
MountEffects ==
    /\ phase = "mounted"
    /\ \E readFails \in BOOLEAN, writeFails \in BOOLEAN :
          LET l == loadFromLocalStorage(slot, readFails)
              q == LoadEffect(state, l.value, now)
              w == SaveEffect(slot, state, isInitialized, writeFails)
          IN  /\ state' = q.state
              /\ isInitialized' = q.isInitialized
              /\ slot' = w.slot
              /\ lastLoad' = LoadOutcome(slot, l)
              /\ lastSave' = SaveOutcome(w, lastSave)
              /\ wrote' = (wrote \/ (w.called /\ ~w.logged))
              /\ phase' = IF l.raised \/ w.raised THEN "crashed" ELSE "ready"
    /\ dirty' = TRUE
    /\ prevSession' = Null
    /\ UNCHANGED <<touched, now, steps>>
    /\ ReducerIdle

\* The save effect of the latest render, after the state or the flag changed.
RunSaveEffect ==
    /\ phase = "ready"
    /\ dirty
    /\ \E writeFails \in BOOLEAN :
          LET w == SaveEffect(slot, state, isInitialized, writeFails)
          IN  /\ slot' = w.slot
              /\ lastSave' = SaveOutcome(w, lastSave)
              /\ wrote' = (wrote \/ (w.called /\ ~w.logged))
              /\ phase' = IF w.raised THEN "crashed" ELSE phase
    /\ dirty' = FALSE
    /\ UNCHANGED <<state, isInitialized, lastLoad, touched, prevSession, now, steps>>
    /\ ReducerIdle

\* dispatch(action): the reducer runs on the current state; a re-render and
\* its save effect follow
Dispatch(a) ==
    /\ phase = "ready"
    /\ steps < MaxSteps
    /\ steps' = steps + 1
    /\ state' = todoReducer(state, a, now)
    /\ dirty' = TRUE
    /\ touched' = TRUE
    /\ UNCHANGED <<isInitialized, slot, phase, lastLoad, lastSave, wrote, prevSession, now>>
    /\ ReducerIdle

\* The facade's functions, with the arguments its callers pass.
addTodo ==
    \E todo \in {PlainTodo("1", now), FullTodo("2", now)} :
        Dispatch([type |-> "ADD_TODO", payload |-> todo])

updateTodo ==
    \E id \in {"1", MissingId} :
        Dispatch([type |-> "UPDATE_TODO", payload |-> [id |-> id, updates |-> FormUpdate]])

deleteTodo ==
    \E id \in {"1"} : Dispatch([type |-> "DELETE_TODO", payload |-> id])

toggleTodo ==
    \E id \in {"2"} : Dispatch([type |-> "TOGGLE_TODO", payload |-> id])

addCategory ==
    \E c \in {[id |-> "cat1", name |-> "Work", color |-> "#ff0000"]} :
        Dispatch([type |-> "ADD_CATEGORY", payload |-> c])

deleteCategory ==
    \E id \in {"cat1"} : Dispatch([type |-> "DELETE_CATEGORY", payload |-> id])

setFilter ==
    \E f \in {[category |-> Some("Work")]} :
        Dispatch([type |-> "SET_FILTER", payload |-> f])

\* the clock advances
Tick ==
    /\ now < MaxTime
    /\ now' = now + 1
    /\ UNCHANGED <<state, isInitialized, slot, phase, dirty, lastLoad, lastSave, wrote,
                   touched, prevSession, prev, lastAction, steps, hist, view, queue, log, editing>>

\* The page is loaded again: a new provider is constructed over the same storage.
Reload ==
    /\ phase = "ready"
    /\ ~dirty
    /\ state' = initialState
    /\ isInitialized' = FALSE
    /\ phase' = "mounted"
    /\ lastLoad' = "none"
    /\ lastSave' = "none"
    /\ wrote' = FALSE
    /\ touched' = FALSE
    /\ prevSession' = Some([state |-> state, lastSave |-> lastSave])
    /\ UNCHANGED <<slot, dirty, now, steps>>
    /\ ReducerIdle

\* The user clears the site's storage and the page is loaded again: a new
\* provider is constructed over the emptied storage.
ClearedReload ==
    /\ phase = "ready"
    /\ ~dirty
    /\ slot # NoItem
    /\ slot' = removeItem(slot, FALSE).slot
    /\ state' = initialState
    /\ isInitialized' = FALSE
    /\ phase' = "mounted"
    /\ lastLoad' = "none"
    /\ lastSave' = "none"
    /\ wrote' = FALSE
    /\ touched' = FALSE
    /\ prevSession' = Some([state |-> state, lastSave |-> "cleared"])
    /\ UNCHANGED <<dirty, now, steps>>
    /\ ReducerIdle

\* The first session starts over an empty slot or over text that does not parse.
Init ==
    /\ state = initialState
    /\ isInitialized = FALSE
    /\ slot \in {NoItem, InvalidJson}
    /\ phase = "mounted"
    /\ dirty = FALSE
    /\ lastLoad = "none"
    /\ lastSave = "none"
    /\ wrote = FALSE
    /\ touched = FALSE
    /\ prevSession = Null
    /\ now = 0
    /\ prev = initialState
    /\ lastAction = NoAction
    /\ steps = 0
    /\ hist = <<>>
    /\ view = <<>>
    /\ queue = <<>>
    /\ log = <<>>
    /\ editing = Null

Next ==
    \/ MountEffects
    \/ RunSaveEffect
    \/ addTodo
    \/ updateTodo
    \/ deleteTodo
    \/ toggleTodo
    \/ addCategory
    \/ deleteCategory
    \/ setFilter
    \/ Tick
    \/ Reload
    \/ ClearedReload

Spec == Init /\ [][Next]_vars

----------------------------------------------------------------------------
(* The reducer on its own: todoReducer applied, call after call, to the    *)
(* state the previous call returned, starting from initialState.  Each     *)
(* call records its input state (prev), and its action with the instant of *)
(* the call and whether it repeats the call before it (lastAction).        *)

ProviderIdle ==
    UNCHANGED <<isInitialized, slot, phase, dirty, lastLoad, lastSave, wrote, touched,
                prevSession, hist, view, queue, log, editing>>

Reduce(a) ==
    /\ steps < MaxSteps
    /\ steps' = steps + 1
    /\ prev' = state
    /\ lastAction' = a @@ [at |-> now,
                            again |-> (lastAction.type = a.type
                                         /\ lastAction.payload = a.payload)]
    /\ state' = todoReducer(state, a, now)
    /\ UNCHANGED now
    /\ ProviderIdle

ReduceAddTodo ==
    \E todo \in NewTodos(now) : Reduce([type |-> "ADD_TODO", payload |-> todo])

ReduceUpdateTodo ==
    \E id \in {"1", MissingId}, u \in Updates :
        Reduce([type |-> "UPDATE_TODO", payload |-> [id |-> id, updates |-> u]])

ReduceDeleteTodo ==
    \E id \in {"1", MissingId} : Reduce([type |-> "DELETE_TODO", payload |-> id])

ReduceToggleTodo ==
    \E id \in {"1", MissingId} : Reduce([type |-> "TOGGLE_TODO", payload |-> id])

ReduceAddCategory ==
    \E c \in NewCategories : Reduce([type |-> "ADD_CATEGORY", payload |-> c])

ReduceDeleteCategory ==
    \E id \in {"cat1", MissingId} : Reduce([type |-> "DELETE_CATEGORY", payload |-> id])

ReduceSetFilter ==
    \E f \in FilterUpdates : Reduce([type |-> "SET_FILTER", payload |-> f])

ReduceLoadState ==
    \E p \in {SavedState, initialState} : Reduce([type |-> "LOAD_STATE", payload |-> p])

\* an action whose kind is none of the eight
ReduceUnknown ==
    Reduce([type |-> "RESET", payload |-> "1"])

InitReducer ==
    /\ Init
    /\ slot = NoItem

NextReducer ==
    \/ ReduceAddTodo
    \/ ReduceUpdateTodo
    \/ ReduceDeleteTodo
    \/ ReduceToggleTodo
    \/ ReduceAddCategory
    \/ ReduceDeleteCategory
    \/ ReduceSetFilter
    \/ ReduceLoadState
    \/ ReduceUnknown
    \/ Tick

SpecReducer == InitReducer /\ [][NextReducer]_vars

----------------------------------------------------------------------------
(* The adapter on its own: Save, Load and Clear called in any order on one *)
(* slot, the storage raising or not at each call.  hist keeps the latest   *)
(* MaxHist calls: the operation, the slot before it, its argument, whether *)
(* the storage raised, and what the call returned.                         *)

AdapterStates ==
    {initialState, SavedState, [initialState EXCEPT !.todos = <<PlainTodo("1", 0)>>]}

Remember(call) ==
    LET h == Append(hist, call)
    IN  IF Len(h) > MaxHist THEN Tail(h) ELSE h

AdapterCall(op, arg, fails, r) ==
    /\ slot' = r.slot
    /\ hist' = Remember([op |-> op, before |-> slot, arg |-> arg, fails |-> fails,
                         raised |-> r.raised, logged |-> r.logged, value |-> r.value])
    /\ UNCHANGED <<state, isInitialized, phase, dirty, lastLoad, lastSave, wrote, touched,
                   prevSession, now, prev, lastAction, steps, view, queue, log, editing>>

Save ==
    \E s \in AdapterStates, fails \in BOOLEAN :
        AdapterCall("save", Some(s), fails, saveToLocalStorage(slot, s, fails))

Load ==
    \E fails \in BOOLEAN :
        AdapterCall("load", Null, fails, loadFromLocalStorage(slot, fails))

Clear ==
    \E fails \in BOOLEAN :
        AdapterCall("clear", Null, fails, clearLocalStorage(slot, fails))

\* another writer stores text that does not parse: setItem(KEY, 'invalid json')
ExternalWrite ==
    AdapterCall("external", Null, FALSE,
                [slot |-> InvalidJson, raised |-> FALSE, logged |-> FALSE, value |-> Null])

InitAdapter ==
    /\ Init
    /\ slot = NoItem

NextAdapter ==
    \/ Save
    \/ Load
    \/ Clear
    \/ ExternalWrite

SpecAdapter == InitAdapter /\ [][NextAdapter]_vars

----------------------------------------------------------------------------
(* The derived view: the useMemo of components/TodoList/TodoList.tsx *)

The(opt) == CHOOSE v \in opt : TRUE

\* String.prototype.toLowerCase, over the letters the model uses
LowerChar(c) ==
    CASE c = "A" -> "a"
      [] c = "B" -> "b"
      [] c = "C" -> "c"
      [] OTHER -> c

toLowerCase(str) == [i \in 1..Len(str) |-> LowerChar(str[i])]

\* String.prototype.includes
includes(str, sub) ==
    \E i \in 0..(Len(str) - Len(sub)) : SubSeq(str, i + 1, i + Len(sub)) = sub

\* the truthiness of an optional string: undefined and '' are falsy
Truthy(opt) == opt # Undefined /\ opt # Some("")

\* the search predicate without toLowerCase() on the title and description
MatchesSearchExactCase(todo, searchLower) ==
    \/ includes(todo.title, searchLower)
    \/ /\ todo.description # Undefined
       /\ includes(The(todo.description), searchLower)

\* todo.title.toLowerCase().includes(searchLower) ||
\* todo.description?.toLowerCase().includes(searchLower)
MatchesSearch(todo, searchLower) ==
    \/ includes(toLowerCase(todo.title), searchLower)
    \/ /\ todo.description # Undefined
       /\ includes(toLowerCase(The(todo.description)), searchLower)

\* the four filter steps, each run only when its setting is truthy
Searched(s) ==
    IF s.filter.searchText # <<>>
    THEN SelectSeq(s.todos, LAMBDA todo :
                       MatchesSearch(todo, toLowerCase(s.filter.searchText)))
    ELSE s.todos

\* the category filter run on all the todos instead of the searched ones
InCategoryOfAll(s) ==
    IF Truthy(s.filter.category)
    THEN SelectSeq(s.todos, LAMBDA todo : todo.category = s.filter.category)
    ELSE Searched(s)

InCategory(s) ==
    IF Truthy(s.filter.category)
    THEN SelectSeq(Searched(s), LAMBDA todo : todo.category = s.filter.category)
    ELSE Searched(s)

WithPriority(s) ==
    IF Truthy(s.filter.priority)
    THEN SelectSeq(InCategory(s), LAMBDA todo : Some(todo.priority) = s.filter.priority)
    ELSE InCategory(s)

Filtered(s) ==
    IF ~s.filter.showCompleted
    THEN SelectSeq(WithPriority(s), LAMBDA todo : ~todo.completed)
    ELSE WithPriority(s)

\* no filter step ran: `filtered` is still the array state.todos itself
FilteredIsStateTodos(s) ==
    /\ s.filter.searchText = <<>>
    /\ ~Truthy(s.filter.category)
    /\ ~Truthy(s.filter.priority)
    /\ s.filter.showCompleted

priorityOrder == [high |-> 0, medium |-> 1, low |-> 2]

\* the switch with the createdAt case ascending
CompareKeyOldestFirst(a, b, sortBy) ==
    CASE sortBy = "dueDate" ->
             IF a.dueDate = Undefined /\ b.dueDate = Undefined THEN 0
             ELSE IF a.dueDate = Undefined THEN 1
             ELSE IF b.dueDate = Undefined THEN -1
             ELSE The(a.dueDate) - The(b.dueDate)
      [] sortBy = "priority" -> priorityOrder[a.priority] - priorityOrder[b.priority]
      [] OTHER -> a.createdAt - b.createdAt

\* the switch with the todos lacking a due date first
CompareKeyMissingDueFirst(a, b, sortBy) ==
    CASE sortBy = "dueDate" ->
             IF a.dueDate = Undefined /\ b.dueDate = Undefined THEN 0
             ELSE IF a.dueDate = Undefined THEN -1
             ELSE IF b.dueDate = Undefined THEN 1
             ELSE The(a.dueDate) - The(b.dueDate)
      [] sortBy = "priority" -> priorityOrder[a.priority] - priorityOrder[b.priority]
      [] OTHER -> b.createdAt - a.createdAt

\* the switch with the priority case comparing the names of the priorities
\* alphabetically (high, low, medium)
CompareKeyPriorityByName(a, b, sortBy) ==
    LET byName == [high |-> 0, low |-> 1, medium |-> 2]
    IN  CASE sortBy = "dueDate" ->
                 IF a.dueDate = Undefined /\ b.dueDate = Undefined THEN 0
                 ELSE IF a.dueDate = Undefined THEN 1
                 ELSE IF b.dueDate = Undefined THEN -1
                 ELSE The(a.dueDate) - The(b.dueDate)
          [] sortBy = "priority" -> byName[a.priority] - byName[b.priority]
          [] OTHER -> b.createdAt - a.createdAt

\* the comparator's switch on sortBy
CompareKey(a, b, sortBy) ==
    CASE sortBy = "dueDate" ->
             IF a.dueDate = Undefined /\ b.dueDate = Undefined THEN 0
             ELSE IF a.dueDate = Undefined THEN 1
             ELSE IF b.dueDate = Undefined THEN -1
             ELSE The(a.dueDate) - The(b.dueDate)
      [] sortBy = "priority" -> priorityOrder[a.priority] - priorityOrder[b.priority]
      [] OTHER -> b.createdAt - a.createdAt

\* the comparator without its completion test
CompareIgnoringCompletion(a, b, sortBy) == CompareKey(a, b, sortBy)

\* the sort comparator: negative when a goes first, positive when b does
Compare(a, b, sortBy) ==
    IF a.completed # b.completed
    THEN (IF a.completed THEN 1 ELSE -1)
    ELSE CompareKey(a, b, sortBy)

\* a sort that puts an entry before the entries it ties with
RECURSIVE SortUnstable(_, _)
SortUnstable(seq, sortBy) ==
    IF seq = <<>> THEN <<>>
    ELSE LET n == Len(seq)
             front == SortUnstable(SubSeq(seq, 1, n - 1), sortBy)
             k == Cardinality({i \in 1..(n - 1) : Compare(front[i], seq[n], sortBy) < 0})
         IN  SubSeq(front, 1, k) \o <<seq[n]>> \o SubSeq(front, k + 1, n - 1)

\* Array.prototype.sort with the comparator: a stable sort.  The last entry
\* is inserted, into the sorted entries before it, behind every entry that
\* does not go after it.
RECURSIVE Sort(_, _)
Sort(seq, sortBy) ==
    IF seq = <<>> THEN <<>>
    ELSE LET n == Len(seq)
             front == Sort(SubSeq(seq, 1, n - 1), sortBy)
             k == Cardinality({i \in 1..(n - 1) : Compare(front[i], seq[n], sortBy) <= 0})
         IN  SubSeq(front, 1, k) \o <<seq[n]>> \o SubSeq(front, k + 1, n - 1)

\* the memoized computation that sorts `filtered` itself, without copying it
filteredAndSortedInPlace(s) ==
    LET sorted == Sort(Filtered(s), s.filter.sortBy)
    IN  [list |-> sorted,
         todos |-> IF FilteredIsStateTodos(s) THEN sorted ELSE s.todos]

\* the memoized computation: the filters, then [...filtered].sort(...);
\* list is its value, todos is the array state.todos after it ran
filteredAndSortedTodos(s) ==
    [list |-> Sort(Filtered(s), s.filter.sortBy), todos |-> s.todos]

----------------------------------------------------------------------------
(* The derived view on its own: the todo list component rendered once over *)
(* a state whose todos and filter are drawn from the sets below.           *)

\* todos that differ in the fields the view reads; the id is the position
ViewTemplates ==
    {PlainTodo("0", 0),
     FullTodo("0", 1),
     [FullTodo("0", 1) EXCEPT !.completed = TRUE, !.dueDate = Some(0)],
     [PlainTodo("0", 0) EXCEPT !.priority = "low", !.dueDate = Some(2),
                               !.category = Some("work"),
                               !.description = Some(<<"B">>)],
     [PlainTodo("0", 1) EXCEPT !.completed = TRUE, !.priority = "low"],
     [PlainTodo("0", 1) EXCEPT !.priority = "high", !.dueDate = Some(1),
                               !.category = Some("Work")]}

ViewIds == <<"1", "2", "3", "4", "5", "6">>

ViewTodos ==
    UNION {{[i \in 1..n |-> [seq[i] EXCEPT !.id = ViewIds[i]]] :
               seq \in [1..n -> ViewTemplates]} : n \in 0..MaxTodos}

ViewFilters ==
    [searchText : {<<>>, <<"b">>, <<"B", "C">>},
     category : {Undefined, Some("Work")},
     priority : {Undefined, Some("high")},
     showCompleted : BOOLEAN,
     sortBy : SortBy]

ViewStates == [todos : ViewTodos, categories : {<<>>}, filter : ViewFilters]

\* the component renders: useMemo runs the computation over the state
RenderView ==
    /\ lastAction.type = "none"
    /\ LET r == filteredAndSortedTodos(state)
       IN  /\ view' = r.list
           /\ state' = [state EXCEPT !.todos = r.todos]
    /\ prev' = state
    /\ lastAction' = [type |-> "render", at |-> now, again |-> FALSE]
    /\ UNCHANGED <<isInitialized, slot, phase, dirty, lastLoad, lastSave, wrote, touched,
                   prevSession, now, steps, hist, queue, log, editing>>

InitView ==
    /\ state \in ViewStates
    /\ isInitialized = TRUE
    /\ slot = NoItem
    /\ phase = "ready"
    /\ dirty = FALSE
    /\ lastLoad = "absent"
    /\ lastSave = "none"
    /\ wrote = FALSE
    /\ touched = FALSE
    /\ prevSession = Null
    /\ now = 0
    /\ prev = initialState
    /\ lastAction = NoAction
    /\ steps = 0
    /\ hist = <<>>
    /\ view = <<>>
    /\ queue = <<>>
    /\ log = <<>>
    /\ editing = Null

NextView == RenderView

SpecView == InitView /\ [][NextView]_vars

----------------------------------------------------------------------------
(* The facade and the todo list together, as React runs them: a facade      *)
(* function called in an event handler queues its action (dispatch); the    *)
(* render that follows the handler reduces the queued actions, and the todo *)
(* list's useMemo recomputes its value when state.todos or state.filter is  *)
(* another object than at the previous render.  The handler and its render  *)
(* happen at one instant of the clock.  Persistence is left to Spec.        *)

\* the reducer cases that return a state with a new todos array
ReplacesTodosButToggle(a) ==
    a.type \in {"ADD_TODO", "UPDATE_TODO", "DELETE_TODO", "LOAD_STATE"}

ReplacesTodos(a) ==
    a.type \in {"ADD_TODO", "UPDATE_TODO", "DELETE_TODO", "TOGGLE_TODO", "LOAD_STATE"}

\* the reducer cases that return a state with a new filter object
ReplacesFilter(a) == a.type \in {"SET_FILTER", "LOAD_STATE"}

\* useMemo's dependencies [state.todos, state.filter] changed over the queue
DepsChanged(q) == \E i \in 1..Len(q) : ReplacesTodos(q[i]) \/ ReplacesFilter(q[i])

\* a render that reduces the queue newest first
RECURSIVE ProcessQueueNewestFirst(_, _, _)
ProcessQueueNewestFirst(s, q, t) ==
    IF q = <<>> THEN s
    ELSE ProcessQueueNewestFirst(todoReducer(s, q[Len(q)], t), SubSeq(q, 1, Len(q) - 1), t)

\* the render reduces the queued actions, oldest first, from the current state
RECURSIVE ProcessQueue(_, _, _)
ProcessQueue(s, q, t) ==
    IF q = <<>> THEN s ELSE ProcessQueue(todoReducer(s, Head(q), t), Tail(q), t)

FacadeIdle ==
    UNCHANGED <<isInitialized, slot, dirty, lastLoad, lastSave, wrote, touched,
                prevSession, hist, editing>>

\* dispatch(action) in an event handler
Enqueue(a) ==
    /\ phase = "ready"
    /\ steps < MaxSteps
    /\ steps' = steps + 1
    /\ queue' = Append(queue, a)
    /\ log' = Append(log, a @@ [at |-> now])
    /\ UNCHANGED <<state, view, phase, now, prev, lastAction>>
    /\ FacadeIdle

addTodoCall ==
    \E todo \in {PlainTodo("1", now), FullTodo("2", now)} :
        Enqueue([type |-> "ADD_TODO", payload |-> todo])

updateTodoCall ==
    Enqueue([type |-> "UPDATE_TODO", payload |-> [id |-> "1", updates |-> FormUpdate]])

deleteTodoCall == Enqueue([type |-> "DELETE_TODO", payload |-> "1"])

toggleTodoCall == Enqueue([type |-> "TOGGLE_TODO", payload |-> "2"])

addCategoryCall ==
    Enqueue([type |-> "ADD_CATEGORY",
             payload |-> [id |-> "cat1", name |-> "Work", color |-> "#ff0000"]])

deleteCategoryCall == Enqueue([type |-> "DELETE_CATEGORY", payload |-> "cat1"])

setFilterCall ==
    Enqueue([type |-> "SET_FILTER", payload |-> [category |-> Some("Work")]])

\* the load effect after the first commit: dispatch(LOAD_STATE) when a state
\* was loaded
LoadEffectCall ==
    /\ phase = "mounted"
    /\ phase' = "ready"
    /\ \E loaded \in {Null, Some(SavedState)} :
          LET q == IF loaded = Null THEN <<>>
                   ELSE <<[type |-> "LOAD_STATE", payload |-> The(loaded)]>>
          IN  /\ queue' = q
              /\ log' = [i \in 1..Len(q) |-> q[i] @@ [at |-> now]]
    /\ UNCHANGED <<state, view, now, prev, lastAction, steps>>
    /\ FacadeIdle

\* the render after a handler: the queue is reduced and the todo list renders
Render ==
    /\ queue # <<>>
    /\ state' = ProcessQueue(state, queue, now)
    /\ view' = IF DepsChanged(queue) THEN filteredAndSortedTodos(state').list ELSE view
    /\ queue' = <<>>
    /\ prev' = state
    /\ lastAction' = [type |-> IF DepsChanged(queue) THEN "render" ELSE "render-memo",
                      at |-> now, again |-> FALSE, batch |-> Len(queue)]
    /\ UNCHANGED <<phase, now, steps, log>>
    /\ FacadeIdle

\* the clock advances between handlers
Elapse ==
    /\ queue = <<>>
    /\ Tick

InitFacade ==
    /\ Init
    /\ slot = NoItem

NextFacade ==
    \/ LoadEffectCall
    \/ addTodoCall
    \/ updateTodoCall
    \/ deleteTodoCall
    \/ toggleTodoCall
    \/ addCategoryCall
    \/ deleteCategoryCall
    \/ setFilterCall
    \/ Render
    \/ Elapse

SpecFacade == InitFacade /\ [][NextFacade]_vars

----------------------------------------------------------------------------
(* The presentation layer: App.tsx, components/TodoForm, TodoItem,         *)
(* CategoryManager and TodoFilter.  An event handler runs on the state of  *)
(* the latest render and dispatches through the facade; the re-render that *)
(* reduces the dispatched action completes before the next event.  A       *)
(* category name, which the category manager trims and lower-cases, is a   *)
(* sequence of characters here.  lastAction records the latest event: its  *)
(* handler, the text or the todo it was given, the answer to its           *)
(* confirmation dialog, the todo that was open in the form, and the types  *)
(* of the actions it dispatched.                                           *)

\* the texts typed into the form's title field
TitleInputs == {<<>>, <<" ">>, <<"c">>, <<" ", "A", "b", " ">>}

\* the texts typed into the category manager's name field
NameInputs == {<<>>, <<" ", " ">>, <<"A", "b">>, <<"a", "b">>, <<" ", "A", "B", " ">>,
               <<"c">>}

\* the partial filters the filter panel's change handlers build
FilterChanges == {[searchText |-> <<"a">>], [category |-> Some(<<"c">>)],
                  [priority |-> Some("high")], [showCompleted |-> FALSE],
                  [sortBy |-> "priority"]}

\* uuidv4(): the n-th identifier generated; no two calls return the same one
uuidv4(n) == ViewIds[n + 1]

\* String.prototype.trim
RECURSIVE trimStart(_)
trimStart(str) ==
    IF str # <<>> /\ Head(str) = " " THEN trimStart(Tail(str)) ELSE str

RECURSIVE trimEnd(_)
trimEnd(str) ==
    IF str # <<>> /\ str[Len(str)] = " "
    THEN trimEnd(SubSeq(str, 1, Len(str) - 1))
    ELSE str

trim(str) == trimEnd(trimStart(str))

\* what a handler did: the state after the re-render, App's editingTodo, and
\* the types of the actions it dispatched
Handled(s, ed, a, t) ==
    [state |-> todoReducer(s, a, t), editing |-> ed, dispatched |-> <<a.type>>]
NotHandled(s, ed) == [state |-> s, editing |-> ed, dispatched |-> <<>>]

\* handleSubmit of the form without the check of the title
TodoFormSubmitUnchecked(s, ed, title, id, t) ==
    IF ed # Null
    THEN Handled(s, Null,
                 [type |-> "UPDATE_TODO",
                  payload |-> [id |-> The(ed).id,
                               updates |-> [FormUpdate EXCEPT !.title = title]]], t)
    ELSE Handled(s, ed, [type |-> "ADD_TODO",
                         payload |-> [PlainTodo(id, t) EXCEPT !.title = title]], t)

\* handleSubmit of the form that writes the whole todo it was opened with
TodoFormSubmitWholeTodo(s, ed, title, id, t) ==
    IF trim(title) = <<>> THEN NotHandled(s, ed)
    ELSE IF ed # Null
    THEN Handled(s, Null,
                 [type |-> "UPDATE_TODO",
                  payload |-> [id |-> The(ed).id,
                               updates |-> [The(ed) EXCEPT !.title = trim(title)]]], t)
    ELSE Handled(s, ed, [type |-> "ADD_TODO",
                         payload |-> [PlainTodo(id, t) EXCEPT !.title = trim(title)]], t)

\* handleSubmit of the form that adds a todo when the one it edits is gone
TodoFormSubmitUpsert(s, ed, title, id, t) ==
    IF trim(title) = <<>> THEN NotHandled(s, ed)
    ELSE IF ed # Null /\ \E i \in 1..Len(s.todos) : s.todos[i].id = The(ed).id
    THEN Handled(s, Null,
                 [type |-> "UPDATE_TODO",
                  payload |-> [id |-> The(ed).id,
                               updates |-> [FormUpdate EXCEPT !.title = trim(title)]]], t)
    ELSE Handled(s, Null,
                 [type |-> "ADD_TODO",
                  payload |-> IF ed # Null
                              THEN [The(ed) EXCEPT !.title = trim(title)]
                              ELSE [PlainTodo(id, t) EXCEPT !.title = trim(title)]], t)

\* TodoForm.handleSubmit: a blank title is refused; with a todo open the form
\* calls updateTodo(editingTodo.id, the six fields) and onCancelEdit(),
\* otherwise addTodo(a new todo with a fresh id)
TodoFormSubmit(s, ed, title, id, t) ==
    IF trim(title) = <<>> THEN NotHandled(s, ed)
    ELSE IF ed # Null
    THEN Handled(s, Null,
                 [type |-> "UPDATE_TODO",
                  payload |-> [id |-> The(ed).id,
                               updates |-> [FormUpdate EXCEPT !.title = trim(title)]]], t)
    ELSE Handled(s, ed, [type |-> "ADD_TODO",
                         payload |-> [PlainTodo(id, t) EXCEPT !.title = trim(title)]], t)

\* TodoItem.handleToggle
ItemToggle(s, ed, id, t) == Handled(s, ed, [type |-> "TOGGLE_TODO", payload |-> id], t)

\* TodoItem.handleDelete without the confirmation
ItemDeleteUnconfirmed(s, ed, id, confirmed, t) ==
    Handled(s, ed, [type |-> "DELETE_TODO", payload |-> id], t)

\* TodoItem.handleDelete: if (window.confirm(...)) deleteTodo(todo.id)
ItemDelete(s, ed, id, confirmed, t) ==
    IF confirmed
    THEN Handled(s, ed, [type |-> "DELETE_TODO", payload |-> id], t)
    ELSE NotHandled(s, ed)

\* TodoItem.handleEdit and App.handleEditTodo: setEditingTodo(todo)
ItemEdit(s, ed, todo) == NotHandled(s, Some(todo))

\* TodoForm.handleCancel and App.handleCancelEdit: setEditingTodo(null)
CancelEdit(s, ed) == NotHandled(s, Null)

\* the search for a category of the same name that compares the names as typed
existingCategoryExactCase(s, name) ==
    \E i \in 1..Len(s.categories) : s.categories[i].name = trim(name)

\* state.categories.find(cat => cat.name.toLowerCase() ===
\* categoryName.trim().toLowerCase()) found a category
existingCategory(s, name) ==
    \E i \in 1..Len(s.categories) :
        toLowerCase(s.categories[i].name) = toLowerCase(trim(name))

\* CategoryManager.handleSubmit: a blank name and a name in use are refused;
\* otherwise addCategory(a new category with a fresh id and the trimmed name)
CategorySubmit(s, ed, name, id, t) ==
    IF trim(name) = <<>> THEN NotHandled(s, ed)
    ELSE IF existingCategory(s, name) THEN NotHandled(s, ed)
    ELSE Handled(s, ed, [type |-> "ADD_CATEGORY",
                         payload |-> [id |-> id, name |-> trim(name),
                                      color |-> "#3b82f6"]], t)

\* CategoryManager.handleDelete: if (window.confirm(...)) deleteCategory(id)
CategoryDelete(s, ed, id, confirmed, t) ==
    IF confirmed
    THEN Handled(s, ed, [type |-> "DELETE_CATEGORY", payload |-> id], t)
    ELSE NotHandled(s, ed)

\* the change handlers of the filter panel: setFilter(partial)
FilterChange(s, ed, partial, t) ==
    Handled(s, ed, [type |-> "SET_FILTER", payload |-> partial], t)

\* clearFilters that leaves the sort key as it is
clearFiltersKeepingSort(s, ed, t) ==
    Handled(s, ed, [type |-> "SET_FILTER",
                    payload |-> [searchText |-> <<>>, category |-> Undefined,
                                 priority |-> Undefined, showCompleted |-> TRUE]], t)

\* TodoFilter.clearFilters
clearFilters(s, ed, t) ==
    Handled(s, ed, [type |-> "SET_FILTER",
                    payload |-> [searchText |-> <<>>, category |-> Undefined,
                                 priority |-> Undefined, showCompleted |-> TRUE,
                                 sortBy |-> "createdAt"]], t)

\* the todos the list displays, one TodoItem each
Displayed(s) ==
    LET list == filteredAndSortedTodos(s).list
    IN  {list[i] : i \in 1..Len(list)}

UIIdle ==
    UNCHANGED <<isInitialized, slot, phase, dirty, lastLoad, lastSave, wrote, touched,
                prevSession, now, hist, view, queue, log>>

\* an event: its handler ran and the re-render completed
Event(name, r, info, counted) ==
    /\ phase = "ready"
    /\ steps < MaxSteps
    /\ steps' = IF counted THEN steps + 1 ELSE steps
    /\ prev' = state
    /\ state' = r.state
    /\ editing' = r.editing
    /\ lastAction' = [type |-> name, at |-> now, again |-> FALSE, was |-> editing,
                      dispatched |-> r.dispatched] @@ info
    /\ UIIdle

SubmitTodo ==
    \E title \in TitleInputs :
        Event("TodoForm.handleSubmit",
              TodoFormSubmit(state, editing, title, uuidv4(steps), now),
              [input |-> title], TRUE)

ClickToggle ==
    \E todo \in Displayed(state) :
        Event("TodoItem.handleToggle", ItemToggle(state, editing, todo.id, now),
              [target |-> todo.id], TRUE)

ClickDelete ==
    \E todo \in Displayed(state), confirmed \in BOOLEAN :
        Event("TodoItem.handleDelete",
              ItemDelete(state, editing, todo.id, confirmed, now),
              [target |-> todo.id, confirmed |-> confirmed], TRUE)

ClickEdit ==
    \E todo \in Displayed(state) :
        /\ editing # Some(todo)
        /\ Event("TodoItem.handleEdit", ItemEdit(state, editing, todo),
                 [target |-> todo.id], FALSE)

ClickCancel ==
    /\ editing # Null
    /\ Event("TodoForm.handleCancel", CancelEdit(state, editing), <<>>, FALSE)

SubmitCategory ==
    \E name \in NameInputs :
        Event("CategoryManager.handleSubmit",
              CategorySubmit(state, editing, name, uuidv4(steps), now),
              [input |-> name], TRUE)

ClickDeleteCategory ==
    \E i \in 1..Len(state.categories), confirmed \in BOOLEAN :
        Event("CategoryManager.handleDelete",
              CategoryDelete(state, editing, state.categories[i].id, confirmed, now),
              [target |-> state.categories[i].id, confirmed |-> confirmed], TRUE)

ChangeFilter ==
    \E partial \in FilterChanges :
        Event("TodoFilter.change", FilterChange(state, editing, partial, now),
              [input |-> partial], TRUE)

ClickClearFilters ==
    Event("TodoFilter.clearFilters", clearFilters(state, editing, now), <<>>, TRUE)

\* the application is mounted over an empty slot and has initialized
InitUI ==
    /\ state = initialState
    /\ isInitialized = TRUE
    /\ slot = NoItem
    /\ phase = "ready"
    /\ dirty = FALSE
    /\ lastLoad = "absent"
    /\ lastSave = "none"
    /\ wrote = FALSE
    /\ touched = FALSE
    /\ prevSession = Null
    /\ now = 0
    /\ prev = initialState
    /\ lastAction = NoAction
    /\ steps = 0
    /\ hist = <<>>
    /\ view = <<>>
    /\ queue = <<>>
    /\ log = <<>>
    /\ editing = Null

NextUI ==
    \/ SubmitTodo
    \/ ClickToggle
    \/ ClickDelete
    \/ ClickEdit
    \/ ClickCancel
    \/ SubmitCategory
    \/ ClickDeleteCategory
    \/ ChangeFilter
    \/ ClickClearFilters
    \/ Tick

SpecUI == InitUI /\ [][NextUI]_vars

----------------------------------------------------------------------------
(* Properties of the provider, under Spec *)

PrevSessionEnd == CHOOSE p \in prevSession : TRUE

\* a step that runs the effects of the first commit
MountStep == phase = "mounted" /\ phase' = "ready"

\* a step in which the session's first write to the slot succeeds
FirstWrite == ~wrote /\ wrote'

\* the value about to be written derives from the persisted state P of the
\* slot: P was loaded and applied (or P is the initial state itself)
DerivesFromSlot == lastLoad' = "value" \/ slot = JSONstringify(initialState)

\* C1: startup ordering.  No Save is invoked while the effects of the first
\* commit run (before the loaded value is applied), and when the slot holds a
\* valid persisted state P at startup, the first value written to the slot in
\* the session is P when no facade call was made, and a state derived from P
\* otherwise; it is never the initial default written over P.
C1_StartupOrdering ==
    [][/\ MountStep => (slot' = slot /\ lastSave' = "none")
       /\ (FirstWrite /\ HoldsState(slot)) =>
              IF touched THEN DerivesFromSlot ELSE slot' = slot]_vars

\* C1 restricted to the startups whose read of the slot does not raise.
StartupOrderingWhenRead ==
    [][/\ MountStep => (slot' = slot /\ lastSave' = "none")
       /\ (FirstWrite /\ HoldsState(slot) /\ lastLoad' # "raised") =>
              IF touched THEN DerivesFromSlot ELSE slot' = slot]_vars

\* C2: once initialization is complete, when the save effect of the latest
\* state change has run and its write succeeded, the slot holds the
\* serialization of the current in-memory state.
C2_PersistedIsCurrent ==
    (phase = "ready" /\ isInitialized /\ ~dirty /\ lastSave = "ok")
        => slot = JSONstringify(state)

\* C2 witness: facade calls changed the state and their save effect wrote it.
C2_Witness ==
    /\ phase = "ready" /\ isInitialized /\ ~dirty /\ lastSave = "ok"
    /\ touched
    /\ Len(state.todos) = 2
    /\ slot = JSONstringify(state)

\* C3 as stated: whenever the previous session ended with its save written, a
\* fresh startup over the same storage ends with the state the previous
\* session ended with.
C3_SessionRoundTripAnyRead ==
    [][(MountStep /\ prevSession # Null /\ PrevSessionEnd.lastSave = "ok")
          => state' = PrevSessionEnd.state]_vars

\* C3 (amended): whenever the previous session ended with its save written
\* and the startup read of the slot does not raise, a fresh startup over the
\* same storage loads a value and its state equals the state the previous
\* session ended with.
C3_SessionRoundTrip ==
    [][(MountStep /\ prevSession # Null /\ PrevSessionEnd.lastSave = "ok"
          /\ lastLoad' # "raised")
          => (lastLoad' = "value" /\ state' = PrevSessionEnd.state)]_vars

\* C3 witness: a later session has loaded a state with todos, categories and
\* a filter setting, and no facade call has been made in it yet.
C3_Witness ==
    /\ phase = "ready" /\ lastLoad = "value" /\ ~touched
    /\ Len(state.todos) > 0
    /\ Len(state.categories) > 0
    /\ state.filter # initialState.filter

\* a startup completed its effects and no facade function was called since
StartedUntouched == phase = "ready" /\ isInitialized /\ ~touched

\* C35: a failed read never costs persisted data.  In a session with no
\* facade call, a slot that holds a valid persisted state P keeps holding P
\* through initialization and after it, whatever the outcome of the startup
\* read (a value, or no value because the read raised).
C35_FailedReadKeepsData ==
    [][(HoldsState(slot) /\ ~touched /\ ~touched' /\ phase' # "mounted")
          => slot' = slot]_vars

\* C35 restricted to the startups whose read of the slot does not raise.
C35_KeptWhenRead ==
    [][(HoldsState(slot) /\ ~touched /\ ~touched' /\ phase' # "mounted"
          /\ lastLoad' # "raised") => slot' = slot]_vars

\* the data loss of C35: the previous session's todos were persisted, the
\* startup read raised, no facade function was called, and the slot now
\* holds the initial state
C35_Lost ==
    /\ StartedUntouched /\ lastLoad = "raised" /\ ~dirty
    /\ slot = JSONstringify(initialState)
    /\ steps > 0

\* the states the facade's functions lead to from state s at instant t
FacadeResults(s, t) ==
    {todoReducer(s, [type |-> "ADD_TODO", payload |-> todo], t) :
        todo \in {PlainTodo("1", t), FullTodo("2", t)}}
    \cup {todoReducer(s, [type |-> "UPDATE_TODO",
                           payload |-> [id |-> id, updates |-> FormUpdate]], t) :
              id \in {"1", MissingId}}
    \cup {todoReducer(s, [type |-> k, payload |-> id], t) :
              k \in {"DELETE_TODO", "TOGGLE_TODO", "DELETE_CATEGORY"},
              id \in {"1", "2", "cat1"}}
    \cup {todoReducer(s, [type |-> "ADD_CATEGORY",
                           payload |-> [id |-> "cat1", name |-> "Work",
                                        color |-> "#ff0000"]], t),
           todoReducer(s, [type |-> "SET_FILTER",
                           payload |-> [category |-> Some("Work")]], t)}

\* C36: persistence failures do not reach the facade.  No exception leaves a
\* save effect (the tree is never unmounted by one); the save effect leaves
\* the in-memory state as the dispatched actions made it, also when its write
\* fails; and after a failed write a facade call is still applied by the
\* reducer and schedules a further save attempt, which calls Save again.
C36_SaveFailureContained ==
    /\ [](phase # "crashed")
    /\ [](\A fails \in BOOLEAN :
             LET w == SaveEffect(slot, state, isInitialized, fails)
             IN  ~w.raised /\ ((phase = "ready" /\ isInitialized) => w.called))
    /\ [][(dirty /\ ~dirty') => state' = state]_vars
    /\ [][(lastSave = "failed" /\ steps' = steps + 1)
             => (dirty' /\ phase' = "ready" /\ lastSave' = "failed" /\ slot' = slot
                 /\ state' \in FacadeResults(state, now))]_vars

\* C36 witness: the write of the latest save effect failed; the state holds
\* the todo the facade added, and the slot still holds the document written
\* before it.
C36_Witness ==
    /\ phase = "ready" /\ ~dirty /\ lastSave = "failed" /\ touched
    /\ Len(state.todos) = 2
    /\ HoldsState(slot)
    /\ slot # JSONstringify(state)

\* C38: startup without persisted data.  When Load returned no value at
\* startup (the slot was absent, or it was cleared before the page was
\* loaded; or its text did not parse, or the read raised), the state after
\* initialization is the initial state: no todos, no categories, and the
\* default filter.
C38_StartsEmpty ==
    (StartedUntouched /\ lastLoad \in {"absent", "corrupt", "raised"})
        => /\ state = initialState
           /\ state.todos = <<>>
           /\ state.categories = <<>>
           /\ state.filter = [searchText |-> <<>>, category |-> Undefined,
                              priority |-> Undefined, showCompleted |-> TRUE,
                              sortBy |-> "createdAt"]

\* C38 witness: an earlier session made facade calls, the slot is empty (it
\* was cleared, or never written), and this startup found no value.
C38_Witness ==
    /\ StartedUntouched /\ lastLoad = "absent"
    /\ dirty /\ slot = NoItem
    /\ steps > 0
    /\ state = initialState

\* the startup after the slot of a session with todos was cleared
ClearedStartup ==
    /\ MountStep /\ prevSession # Null
    /\ PrevSessionEnd.lastSave = "cleared" /\ Len(PrevSessionEnd.state.todos) > 0

\* after a cleared slot the startup finds no value unless the read raises
ClearedStartsEmpty ==
    [][ClearedStartup => (lastLoad' \in {"absent", "raised"} /\ state' = initialState)]_vars


----------------------------------------------------------------------------
(* Properties of the adapter, under SpecAdapter *)

Calls == 1..Len(hist)

\* the slot after the k-th remembered call
After(k) == IF k = Len(hist) THEN slot ELSE hist[k + 1].before

SavedOk(k) == hist[k].op = "save" /\ ~hist[k].fails
SaveFailed(k) == hist[k].op = "save" /\ hist[k].fails

\* C4 as stated: a Load right after a Save whose write succeeded returns the
\* saved state, whether or not the storage raises on the read.
C4_AdapterRoundTripAnyRead ==
    \A k \in Calls :
        (k > 1 /\ hist[k].op = "load" /\ SavedOk(k - 1))
            => hist[k].value = hist[k - 1].arg

\* C4 (amended): a Load whose read does not raise, right after a Save whose
\* write succeeded, returns a state equal to the saved one; after two
\* successive Saves it is the state of the second (a Save overwrites the slot).
C4_AdapterRoundTrip ==
    \A k \in Calls :
        (k > 1 /\ hist[k].op = "load" /\ ~hist[k].fails /\ SavedOk(k - 1))
            => hist[k].value = hist[k - 1].arg

\* C4 witness: two Saves of different states, then a Load that returns the
\* second, a state with absent optional fields.
C4_Witness ==
    /\ Len(hist) = 3
    /\ SavedOk(1) /\ SavedOk(2) /\ hist[1].arg # hist[2].arg
    /\ hist[2].arg = Some([initialState EXCEPT !.todos = <<PlainTodo("1", 0)>>])
    /\ hist[3].op = "load" /\ ~hist[3].fails
    /\ hist[3].value = hist[2].arg

\* C5: Load never raises, and returns no value when the slot is absent, when
\* its text does not parse, and when the storage raises on the read.
C5_LoadNeverRaises ==
    \A k \in Calls :
        hist[k].op = "load" =>
            /\ ~hist[k].raised
            /\ (hist[k].before = NoItem \/ hist[k].before = InvalidJson \/ hist[k].fails)
                   => hist[k].value = Null

\* C5 witness: three Loads that returned no value and did not raise, one of
\* text that does not parse and one on which the storage raised on the read.
C5_Witness ==
    /\ Len(hist) = 3
    /\ \A k \in Calls : hist[k].op = "load" /\ hist[k].value = Null /\ ~hist[k].raised
    /\ \E k \in Calls : hist[k].before = InvalidJson /\ ~hist[k].fails /\ hist[k].logged
    /\ \E k \in Calls : hist[k].fails /\ hist[k].logged

\* C6 as stated: Save never raises, a Save whose write fails leaves the slot
\* as it was, and a Load after it returns the state of the previous
\* successful Save, whether or not the storage raises on the read.
C6_SaveNeverRaisesAnyRead ==
    /\ \A k \in Calls :
           hist[k].op = "save" =>
               (~hist[k].raised /\ (hist[k].fails => After(k) = hist[k].before))
    /\ \A k \in Calls :
           (k > 2 /\ hist[k].op = "load" /\ SaveFailed(k - 1) /\ SavedOk(k - 2))
               => hist[k].value = hist[k - 2].arg

\* C6 (amended): Save never raises; a Save whose write fails leaves the slot
\* as it was, and a Load whose read does not raise, made after it, returns the
\* state of the previous successful Save.
C6_SaveNeverRaises ==
    /\ \A k \in Calls :
           hist[k].op = "save" =>
               (~hist[k].raised /\ (hist[k].fails => After(k) = hist[k].before))
    /\ \A k \in Calls :
           (k > 2 /\ hist[k].op = "load" /\ ~hist[k].fails /\ SaveFailed(k - 1)
              /\ SavedOk(k - 2))
               => hist[k].value = hist[k - 2].arg

\* C6 witness: a Save, a failed Save of another state, and a Load that
\* returns the first.
C6_Witness ==
    /\ Len(hist) = 3
    /\ SavedOk(1) /\ SaveFailed(2) /\ hist[1].arg # hist[2].arg
    /\ ~hist[2].raised /\ hist[2].logged
    /\ hist[3].op = "load" /\ ~hist[3].fails /\ hist[3].value = hist[1].arg

\* C7: Clear never raises; when the removal succeeds the slot is absent and
\* a following Load returns no value, and when the removal raises the slot
\* is left as it was.
C7_Clear ==
    \A k \in Calls :
        hist[k].op = "clear" =>
            /\ ~hist[k].raised
            /\ After(k) = (IF hist[k].fails THEN hist[k].before ELSE NoItem)
            /\ (~hist[k].fails /\ k < Len(hist) /\ hist[k + 1].op = "load")
                   => hist[k + 1].value = Null

\* C7 witness: a failed Clear of a saved state left it in place, a second
\* Clear removed it, and the Load that followed returned no value.
C7_Witness ==
    /\ Len(hist) = 3
    /\ hist[1].op = "clear" /\ hist[1].fails /\ HoldsState(hist[1].before)
    /\ After(1) = hist[1].before
    /\ hist[2].op = "clear" /\ ~hist[2].fails
    /\ hist[3].op = "load" /\ hist[3].value = Null

----------------------------------------------------------------------------
(* Properties of the reducer, under SpecReducer *)

Ids(s) == {s.todos[i].id : i \in 1..Len(s.todos)}
CategoryIdsOf(s) == {s.categories[i].id : i \in 1..Len(s.categories)}

IsCall(type) == lastAction.type = type

\* C8: no-op laws.  Update Todo, Delete Todo and Toggle Todo with an id that
\* no todo of the input state carries, and Delete Category with an id that no
\* category carries, return a state equal to the input state in every field.
C8_NoOpLaws ==
    /\ (IsCall("UPDATE_TODO") /\ lastAction.payload.id \notin Ids(prev)) => state = prev
    /\ (IsCall("DELETE_TODO") /\ lastAction.payload \notin Ids(prev)) => state = prev
    /\ (IsCall("TOGGLE_TODO") /\ lastAction.payload \notin Ids(prev)) => state = prev
    /\ (IsCall("DELETE_CATEGORY") /\ lastAction.payload \notin CategoryIdsOf(prev))
           => state = prev

\* C8 witness: Toggle Todo with an absent id was applied, later than the
\* todos were stamped, to a state holding a todo and a category.
C8_Witness ==
    /\ IsCall("TOGGLE_TODO") /\ lastAction.payload \notin Ids(prev)
    /\ Len(prev.todos) > 0
    /\ \A i \in 1..Len(prev.todos) : prev.todos[i].updatedAt < lastAction.at
    /\ Len(prev.categories) > 0
    /\ state = prev

\* C9: Update Todo(id, partial) gives every todo carrying the id the given
\* value in every given field, its prior value in every other field, and the
\* instant of the call as updatedAt, whatever updatedAt the partial carries;
\* the other todos, the categories and the filter are unchanged.
C9_UpdateTodo ==
    IsCall("UPDATE_TODO") =>
        LET id == lastAction.payload.id
            u == lastAction.payload.updates
        IN  /\ Len(state.todos) = Len(prev.todos)
            /\ \A i \in 1..Len(prev.todos) :
                   IF prev.todos[i].id = id
                   THEN /\ DOMAIN state.todos[i] = TodoFields
                        /\ \A f \in (DOMAIN u) \ {"updatedAt"} : state.todos[i][f] = u[f]
                        /\ \A f \in TodoFields \ ((DOMAIN u) \cup {"updatedAt"}) :
                               state.todos[i][f] = prev.todos[i][f]
                        /\ state.todos[i].updatedAt = lastAction.at
                   ELSE state.todos[i] = prev.todos[i]
            /\ state.categories = prev.categories
            /\ state.filter = prev.filter

\* C9 witness: a partial carrying updatedAt = 0 was applied at a later instant
\* to one of two todos.
C9_Witness ==
    /\ IsCall("UPDATE_TODO") /\ lastAction.payload.updates = StampUpdate
    /\ lastAction.at > 0
    /\ Len(prev.todos) = 2
    /\ prev.todos[1].id = lastAction.payload.id
    /\ prev.todos[2].id # lastAction.payload.id
    /\ state.todos[1].updatedAt = lastAction.at
    /\ state.todos[1].completed /\ ~prev.todos[1].completed

\* the todos of s and t are equal but for the fields named in `but`
SameTodoBut(s, t, but) == \A f \in TodoFields \ but : s[f] = t[f]

ToggledOnce ==
    IsCall("TOGGLE_TODO") =>
        /\ Len(state.todos) = Len(prev.todos)
        /\ \A i \in 1..Len(prev.todos) :
               IF prev.todos[i].id = lastAction.payload
               THEN /\ state.todos[i].completed = ~prev.todos[i].completed
                    /\ state.todos[i].updatedAt = lastAction.at
                    /\ DOMAIN state.todos[i] = TodoFields
                    /\ SameTodoBut(state.todos[i], prev.todos[i], {"completed", "updatedAt"})
               ELSE state.todos[i] = prev.todos[i]
        /\ state.categories = prev.categories
        /\ state.filter = prev.filter

\* a step that toggles the id the call before it toggled
SecondToggle ==
    /\ steps' = steps + 1
    /\ lastAction.type = "TOGGLE_TODO"
    /\ lastAction'.type = "TOGGLE_TODO"
    /\ lastAction'.payload = lastAction.payload

\* C10: Toggle Todo(id) flips the completed flag of the todo carrying the id
\* and sets its updatedAt to the instant of the call, leaving its other fields
\* and every other todo unchanged; two successive toggles of the same id
\* restore the completed value every todo had before the first.
C10_ToggleTodo ==
    /\ []ToggledOnce
    /\ [][SecondToggle =>
            /\ Len(state'.todos) = Len(prev.todos)
            /\ \A i \in 1..Len(prev.todos) :
                   state'.todos[i].completed = prev.todos[i].completed]_vars

\* C10 witness: the second of two successive toggles of an existing id took a
\* todo back to incomplete, at a later instant than its last stamp.
C10_Witness ==
    /\ IsCall("TOGGLE_TODO") /\ lastAction.again
    /\ Len(prev.todos) > 0
    /\ prev.todos[1].id = lastAction.payload
    /\ prev.todos[1].completed /\ ~state.todos[1].completed
    /\ state.todos[1].updatedAt > prev.todos[1].updatedAt

\* the number of todos of s that do not carry the id
OtherTodos(s, id) == Cardinality({i \in 1..Len(s.todos) : s.todos[i].id # id})

\* C11: Delete Todo(id) returns a state in which no todo carries the id, in
\* which every todo of the input state with another id is present, unchanged,
\* as many times as before, and whose categories and filter are those of the
\* input state.
C11_DeleteTodo ==
    IsCall("DELETE_TODO") =>
        LET id == lastAction.payload
        IN  /\ id \notin Ids(state)
            /\ \A i \in 1..Len(prev.todos) :
                   prev.todos[i].id # id =>
                       Cardinality({j \in 1..Len(state.todos) : state.todos[j] = prev.todos[i]})
                           = Cardinality({j \in 1..Len(prev.todos) : prev.todos[j] = prev.todos[i]})
            /\ Len(state.todos) = OtherTodos(prev, id)
            /\ state.categories = prev.categories
            /\ state.filter = prev.filter

\* C11 witness: Delete Todo removed the first of two todos with different
\* ids and kept the second.
C11_Witness ==
    /\ IsCall("DELETE_TODO")
    /\ Len(prev.todos) = 2
    /\ prev.todos[1].id = lastAction.payload
    /\ prev.todos[2].id # lastAction.payload
    /\ state.todos = <<prev.todos[2]>>

\* the id the latest call acted on, for the calls that rewrite a todo
IsRewrite == IsCall("UPDATE_TODO") \/ IsCall("TOGGLE_TODO")
Target == IF IsCall("UPDATE_TODO") THEN lastAction.payload.id ELSE lastAction.payload

\* x is what the latest call made of the entry y: y itself, or the rewritten
\* todo when y carries the id the call acted on
MadeOf(x, y) == x = y \/ (IsRewrite /\ "id" \in DOMAIN y /\ y.id = Target)

\* the entries of `after` are made of entries of `before`, in the same order
RECURSIVE Survives(_, _)
Survives(after, before) ==
    IF after = <<>> THEN TRUE
    ELSE IF before = <<>> THEN FALSE
    ELSE \/ MadeOf(Head(after), Head(before)) /\ Survives(Tail(after), Tail(before))
         \/ Survives(after, Tail(before))

\* C12: order preservation.  Add Todo and Add Category return the input
\* sequence with the new entry appended at its end; every call other than Load
\* State returns todos and categories whose surviving entries are in the
\* relative order they had in the input state, so that the order of the
\* entries is the order in which they were added.
C12_OrderPreserved ==
    /\ IsCall("ADD_TODO") => state.todos = Append(prev.todos, lastAction.payload)
    /\ IsCall("ADD_CATEGORY") =>
           state.categories = Append(prev.categories, lastAction.payload)
    /\ (~IsCall("LOAD_STATE") /\ ~IsCall("ADD_TODO") /\ ~IsCall("none")) =>
           Survives(state.todos, prev.todos)
    /\ (~IsCall("LOAD_STATE") /\ ~IsCall("ADD_CATEGORY") /\ ~IsCall("none")) =>
           state.categories \in {prev.categories} \cup
               {SelectSeq(prev.categories, LAMBDA c : c.id # id) :
                    id \in CategoryIdsOf(prev)}

\* C12 witness: of two todos added one after the other, the second was
\* rewritten by Update Todo and is still second, after the untouched first.
C12_Witness ==
    /\ IsCall("UPDATE_TODO")
    /\ Len(prev.todos) = 2 /\ Len(state.todos) = 2
    /\ prev.todos[2].id = lastAction.payload.id
    /\ prev.todos[1].id # lastAction.payload.id
    /\ state.todos[1] = prev.todos[1]
    /\ state.todos[2] # prev.todos[2]
    /\ state.todos[2].createdAt = prev.todos[2].createdAt

\* the names of the categories of s that carry the id
NamesOf(s, id) ==
    {s.categories[i].name : i \in {j \in 1..Len(s.categories) : s.categories[j].id = id}}

\* C13: Delete Category(id) returns a state in which no category carries the
\* id and every other category is kept; the todos are those of the input
\* state, the ones whose category names a deleted category included, and the
\* filter is that of the input state, even when its category names a deleted
\* category.
C13_DeleteCategory ==
    IsCall("DELETE_CATEGORY") =>
        /\ lastAction.payload \notin CategoryIdsOf(state)
        /\ \A i \in 1..Len(prev.categories) :
               prev.categories[i].id # lastAction.payload =>
                   \E j \in 1..Len(state.categories) :
                       state.categories[j] = prev.categories[i]
        /\ Len(state.categories) =
               Cardinality({i \in 1..Len(prev.categories) :
                               prev.categories[i].id # lastAction.payload})
        /\ state.todos = prev.todos
        /\ state.filter = prev.filter

\* C13 witness: the deleted category was named by a todo and by the filter,
\* and both still name it.
C13_Witness ==
    /\ IsCall("DELETE_CATEGORY")
    /\ NamesOf(prev, lastAction.payload) # {}
    /\ state.categories = <<>>
    /\ Len(state.todos) > 0
    /\ state.todos[1].category # Undefined
    /\ state.todos[1].category \subseteq NamesOf(prev, lastAction.payload)
    /\ state.filter.category # Undefined
    /\ state.filter.category \subseteq NamesOf(prev, lastAction.payload)

\* C14: Set Filter(partial) returns a filter that has the given value in every
\* field the partial gives, undefined included, and the value of the input
\* state's filter in every other field; todos and categories are unchanged.
C14_SetFilter ==
    IsCall("SET_FILTER") =>
        /\ DOMAIN state.filter = FilterFields
        /\ \A f \in DOMAIN lastAction.payload : state.filter[f] = lastAction.payload[f]
        /\ \A f \in FilterFields \ DOMAIN lastAction.payload :
               state.filter[f] = prev.filter[f]
        /\ state.todos = prev.todos
        /\ state.categories = prev.categories

\* C14 witness: a partial giving showCompleted and sortBy alone was merged
\* into a filter whose searchText and category were set before, and both are
\* kept.
C14_Witness ==
    /\ IsCall("SET_FILTER")
    /\ DOMAIN lastAction.payload = {"showCompleted", "sortBy"}
    /\ prev.filter.searchText # <<>>
    /\ prev.filter.category # Undefined
    /\ prev.filter.showCompleted /\ ~state.filter.showCompleted
    /\ state.filter.searchText = prev.filter.searchText
    /\ state.filter.category = prev.filter.category
    /\ Len(state.todos) > 0

\* C15: Load State(payload) returns the payload, whatever the input state:
\* the todos, the categories and the filter of the result are the payload's.
C15_LoadState ==
    IsCall("LOAD_STATE") =>
        /\ state = lastAction.payload
        /\ state.todos = lastAction.payload.todos
        /\ state.categories = lastAction.payload.categories
        /\ state.filter = lastAction.payload.filter

\* C15 witness: an empty payload was loaded over a state that held a todo, a
\* category and a filter setting, and nothing of them is left.
C15_Witness ==
    /\ IsCall("LOAD_STATE")
    /\ lastAction.payload = initialState
    /\ Len(prev.todos) > 0
    /\ Len(prev.categories) > 0
    /\ prev.filter # initialState.filter
    /\ state = initialState

ActionKinds == {"ADD_TODO", "UPDATE_TODO", "DELETE_TODO", "TOGGLE_TODO", "ADD_CATEGORY",
                "DELETE_CATEGORY", "SET_FILTER", "LOAD_STATE"}

\* C16: no reducer call throws, and a call whose action kind is none of the
\* eight returns the input state, equal in every field.
C16_NeverThrows ==
    ~IsCall("none") =>
        /\ ~todoReducerThrows(prev, lastAction)
        /\ lastAction.type \notin ActionKinds => state = prev

\* C16 witness: an action of an unknown kind was applied to a state holding a
\* todo and a category, and returned it.
C16_Witness ==
    /\ ~IsCall("none")
    /\ lastAction.type \notin ActionKinds
    /\ Len(prev.todos) > 0
    /\ Len(prev.categories) > 0
    /\ state = prev

\* no two entries of the sequence carry the same id
UniqueIds(seq) == \A i, j \in 1..Len(seq) : seq[i].id = seq[j].id => i = j

\* C17: in every state reached from the empty initial state through reducer
\* calls, no two todos share an id and no two categories share an id.
C17_UniqueIds ==
    /\ UniqueIds(state.todos)
    /\ UniqueIds(state.categories)

\* Two ways the reducer yields a shared id: Add Todo (Add Category) of an
\* entry whose id is in use, and Update Todo with a partial that carries the
\* id of another todo, applied to todos whose ids were all different.
DuplicateByAdd ==
    /\ IsCall("ADD_TODO")
    /\ UniqueIds(prev.todos)
    /\ ~UniqueIds(state.todos)

DuplicateByUpdate ==
    /\ IsCall("UPDATE_TODO")
    /\ UniqueIds(prev.todos)
    /\ ~UniqueIds(state.todos)

\* the ids of the entries, in order
IdSeq(seq) == [i \in 1..Len(seq) |-> seq[i].id]

\* C18: no reducer call changes the id of a todo that stays in the todos
\* sequence: Add Todo keeps the ids of the todos it appends to, Delete Todo
\* keeps the ids of the todos it leaves, and every other call but Load State,
\* Update Todo in particular, returns todos carrying the ids they carried.
C18_IdImmutable ==
    /\ IsCall("ADD_TODO") =>
           IdSeq(SubSeq(state.todos, 1, Len(prev.todos))) = IdSeq(prev.todos)
    /\ IsCall("DELETE_TODO") =>
           IdSeq(state.todos) =
               SelectSeq(IdSeq(prev.todos), LAMBDA id : id # lastAction.payload)
    /\ lastAction.type \notin {"ADD_TODO", "DELETE_TODO", "LOAD_STATE", "none"} =>
           IdSeq(state.todos) = IdSeq(prev.todos)

\* Update Todo gave a todo another id
IdChangedByUpdate ==
    /\ IsCall("UPDATE_TODO")
    /\ Len(prev.todos) > 0
    /\ prev.todos[1].id = lastAction.payload.id
    /\ state.todos[1].id # prev.todos[1].id

\* C19: after Update Todo or Toggle Todo every todo has the createdAt it had
\* before the call, hence the one it was added with, and the todo the call
\* acted on has the instant of the call as updatedAt.
C19_CreatedAtFixed ==
    IsRewrite =>
        /\ Len(state.todos) = Len(prev.todos)
        /\ \A i \in 1..Len(prev.todos) :
               /\ state.todos[i].createdAt = prev.todos[i].createdAt
               /\ prev.todos[i].id = Target => state.todos[i].updatedAt = lastAction.at

\* the updatedAt half of C19 on its own
UpdatedAtIsLatest ==
    IsRewrite =>
        \A i \in 1..Len(prev.todos) :
            prev.todos[i].id = Target => state.todos[i].updatedAt = lastAction.at

\* C20: the result of a reducer call is a function of the state and the
\* action alone: the same call made at any other instant of the clock
\* returns the same state.
C20_PureDeterministic ==
    ~IsCall("none") =>
        \A t \in 0..MaxTime : todoReducer(prev, lastAction, t) = state

\* the calls that do not read the clock are functions of the state and the
\* action
DeterministicButForClock ==
    (~IsCall("none") /\ (~IsRewrite \/ Target \notin Ids(prev))) =>
        \A t \in 0..MaxTime : todoReducer(prev, lastAction, t) = state

\* the todo is as Add Todo stored it at the instant its createdAt names
AsAdded(todo) == todo \in NewTodos(todo.createdAt)

\* C34: update after add.  After a todo was added, Update Todo with a new
\* title on its id leaves the todo with the new title and with an updatedAt
\* strictly later than its createdAt.
C34_UpdateAfterAdd ==
    (IsCall("UPDATE_TODO") /\ lastAction.payload.updates = TitleUpdate) =>
        \A i \in 1..Len(prev.todos) :
            (prev.todos[i].id = Target /\ AsAdded(prev.todos[i])) =>
                /\ state.todos[i].title = TitleUpdate.title
                /\ state.todos[i].updatedAt > state.todos[i].createdAt

\* what holds of the update after add: the new title, an updatedAt that is
\* the instant of the update, and one strictly later than createdAt when the
\* clock has advanced since the todo was added
UpdateAfterAddWhenClockAdvanced ==
    (IsCall("UPDATE_TODO") /\ lastAction.payload.updates = TitleUpdate) =>
        \A i \in 1..Len(prev.todos) :
            (prev.todos[i].id = Target /\ AsAdded(prev.todos[i])) =>
                /\ state.todos[i].title = TitleUpdate.title
                /\ state.todos[i].updatedAt = lastAction.at
                /\ lastAction.at > prev.todos[i].createdAt
                       => state.todos[i].updatedAt > state.todos[i].createdAt

\* the update ran at the instant the todo was added: updatedAt equals createdAt
UpdatedAtInstantOfAdd ==
    /\ IsCall("UPDATE_TODO") /\ lastAction.payload.updates = TitleUpdate
    /\ Len(prev.todos) = 1 /\ prev.todos[1].id = Target /\ AsAdded(prev.todos[1])
    /\ state.todos[1].title = TitleUpdate.title
    /\ state.todos[1].updatedAt = state.todos[1].createdAt

----------------------------------------------------------------------------
(* Properties of the derived view, under SpecView: prev is the state the   *)
(* component rendered, view the list it displays.                          *)

Rendered == IsCall("render")

\* the positions of the view, and the pairs of them in display order
Shown == 1..Len(view)
Before(i, j) == i \in Shown /\ j \in Shown /\ i < j

\* C21: partition law.  Whatever the filter and the sort key, no completed
\* todo is displayed before an incomplete one.
C21_PartitionLaw ==
    Rendered =>
        \A i, j \in Shown : Before(i, j) => ~(view[i].completed /\ ~view[j].completed)

\* C21 witness: a completed todo that is first in the state, and that the sort
\* key alone would put first (it is the newest), is displayed last, with a
\* filter active.
C21_Witness ==
    /\ Rendered
    /\ prev.filter.sortBy = "createdAt"
    /\ prev.filter.searchText # <<>>
    /\ Len(view) = 3
    /\ prev.todos[1].completed
    /\ view[3] = prev.todos[1]
    /\ ~view[1].completed /\ ~view[2].completed
    /\ view[3].createdAt > view[2].createdAt


\* str contains sub as a substring, letters compared without regard to case
ContainsIgnoringCase(str, sub) ==
    \E i \in 0..(Len(str) - Len(sub)) :
        \A k \in 1..Len(sub) : LowerChar(str[i + k]) = LowerChar(sub[k])

\* the four predicates of the filter f, each true of every todo when inactive
SearchKeeps(todo, f) ==
    \/ f.searchText = <<>>
    \/ ContainsIgnoringCase(todo.title, f.searchText)
    \/ \E d \in todo.description : ContainsIgnoringCase(d, f.searchText)

CategoryKeeps(todo, f) == \A c \in f.category : todo.category = {c}
PriorityKeeps(todo, f) == \A p \in f.priority : todo.priority = p
CompletionKeeps(todo, f) == f.showCompleted \/ ~todo.completed

Keeps(todo, f) ==
    /\ SearchKeeps(todo, f)
    /\ CategoryKeeps(todo, f)
    /\ PriorityKeeps(todo, f)
    /\ CompletionKeeps(todo, f)

ViewSet == {view[i] : i \in Shown}
TodoSet(s) == {s.todos[i] : i \in 1..Len(s.todos)}

\* C22: filter composition.  The todos displayed are exactly the todos of the
\* state that satisfy every active predicate at once, each displayed once; an
\* unset category, an unset priority and showCompleted = true exclude nothing.
C22_FilterComposition ==
    Rendered =>
        /\ ViewSet = {todo \in TodoSet(prev) : Keeps(todo, prev.filter)}
        /\ Len(view) = Cardinality(ViewSet)
        /\ (prev.filter.searchText = <<>> /\ prev.filter.category = Undefined
              /\ prev.filter.priority = Undefined /\ prev.filter.showCompleted)
               => ViewSet = TodoSet(prev)

\* C22 witness: with the four filters active, one todo of three is displayed;
\* of the other two, one fails the completion predicate alone and one fails
\* the search predicate alone.
C22_Witness ==
    /\ Rendered
    /\ prev.filter.searchText # <<>>
    /\ prev.filter.category = Some("Work")
    /\ prev.filter.priority = Some("high")
    /\ ~prev.filter.showCompleted
    /\ Len(prev.todos) = 3
    /\ Len(view) = 1
    /\ \E todo \in TodoSet(prev) :
           /\ todo.completed
           /\ Keeps(todo, [prev.filter EXCEPT !.showCompleted = TRUE])
    /\ \E todo \in TodoSet(prev) :
           /\ ~SearchKeeps(todo, prev.filter)
           /\ Keeps(todo, [prev.filter EXCEPT !.searchText = <<>>])

\* no filter but the search is active
SearchAlone(f) == f.category = Undefined /\ f.priority = Undefined /\ f.showCompleted

\* C23: search filter.  With a non-empty searchText, the search step keeps a
\* todo iff its title, or its description when it has one, contains the text
\* as a substring, letters compared without regard to case; with an empty
\* searchText the step keeps every todo.  (A todo without description is
\* tested on its title alone.)
C23_SearchFilter ==
    Rendered =>
        /\ \A i \in Shown :
               \/ prev.filter.searchText = <<>>
               \/ ContainsIgnoringCase(view[i].title, prev.filter.searchText)
               \/ /\ view[i].description # Undefined
                  /\ ContainsIgnoringCase(The(view[i].description), prev.filter.searchText)
        /\ SearchAlone(prev.filter) =>
               \A todo \in TodoSet(prev) :
                   todo \in ViewSet <=>
                       \/ prev.filter.searchText = <<>>
                       \/ ContainsIgnoringCase(todo.title, prev.filter.searchText)
                       \/ /\ todo.description # Undefined
                          /\ ContainsIgnoringCase(The(todo.description),
                                                  prev.filter.searchText)

\* C23 witness: the search alone is active; a todo without description whose
\* title does not contain the text is dropped, and a todo is kept for its
\* description, which contains the text in another case.
C23_Witness ==
    /\ Rendered
    /\ SearchAlone(prev.filter)
    /\ prev.filter.searchText # <<>>
    /\ \E todo \in TodoSet(prev) : todo.description = Undefined /\ todo \notin ViewSet
    /\ \E todo \in ViewSet :
           /\ ~ContainsIgnoringCase(todo.title, prev.filter.searchText)
           /\ todo.description # Undefined
           /\ ~includes(The(todo.description), prev.filter.searchText)

\* two displayed todos of the same completion partition, in display order
SamePartition(i, j) == Before(i, j) /\ view[i].completed = view[j].completed

\* C24: with sortBy = createdAt, the todos of each completion partition are
\* displayed newest first, and a completed todo comes after every incomplete
\* one, a newer completed todo included.
C24_SortByCreatedAt ==
    (Rendered /\ prev.filter.sortBy = "createdAt") =>
        \A i, j \in Shown :
            /\ SamePartition(i, j) => view[i].createdAt >= view[j].createdAt
            /\ Before(i, j) => ~(view[i].completed /\ ~view[j].completed)

\* C24 witness: the state holds an older incomplete todo, then a newer
\* incomplete one, then a completed one newer than the first; they are
\* displayed newer incomplete, older incomplete, completed.
C24_Witness ==
    /\ Rendered /\ prev.filter.sortBy = "createdAt"
    /\ Len(prev.todos) = 3
    /\ view = <<prev.todos[2], prev.todos[1], prev.todos[3]>>
    /\ ~view[1].completed /\ ~view[2].completed /\ view[3].completed
    /\ view[1].createdAt > view[2].createdAt
    /\ view[3].createdAt > view[2].createdAt

\* C25: with sortBy = dueDate, within each completion partition the todos
\* that have a due date are displayed first, in ascending order of due date,
\* and every todo without due date after all of them.
C25_SortByDueDate ==
    (Rendered /\ prev.filter.sortBy = "dueDate") =>
        \A i, j \in Shown :
            SamePartition(i, j) =>
                /\ view[i].dueDate = Undefined => view[j].dueDate = Undefined
                /\ (view[i].dueDate # Undefined /\ view[j].dueDate # Undefined)
                       => The(view[i].dueDate) <= The(view[j].dueDate)

\* C25 witness: three incomplete todos, the first without due date and the
\* second due later than the third, are displayed third, second, first.
C25_Witness ==
    /\ Rendered /\ prev.filter.sortBy = "dueDate"
    /\ Len(prev.todos) = 3
    /\ \A i \in 1..3 : ~prev.todos[i].completed
    /\ view = <<prev.todos[3], prev.todos[2], prev.todos[1]>>
    /\ view[3].dueDate = Undefined
    /\ view[1].dueDate # Undefined /\ view[2].dueDate # Undefined
    /\ The(view[1].dueDate) < The(view[2].dueDate)

\* C26: with sortBy = priority, within each completion partition every high
\* todo is displayed before every medium one and every medium one before
\* every low one.
C26_SortByPriority ==
    (Rendered /\ prev.filter.sortBy = "priority") =>
        \A i, j \in Shown :
            SamePartition(i, j) =>
                /\ view[j].priority = "high" => view[i].priority = "high"
                /\ view[j].priority = "medium" => view[i].priority \in {"high", "medium"}

\* C26 witness: three incomplete todos of priority low, medium and high, in
\* that order in the state, are displayed high, medium, low.
C26_Witness ==
    /\ Rendered /\ prev.filter.sortBy = "priority"
    /\ Len(prev.todos) = 3
    /\ \A i \in 1..3 : ~prev.todos[i].completed
    /\ <<prev.todos[1].priority, prev.todos[2].priority, prev.todos[3].priority>>
           = <<"low", "medium", "high">>
    /\ view = <<prev.todos[3], prev.todos[2], prev.todos[1]>>

\* the position in the state's todos of a displayed todo (ids are positions)
PositionOf(todo) == CHOOSE k \in 1..Len(prev.todos) : prev.todos[k] = todo

\* the two todos have equal sort keys under sortBy
EqualKeys(a, b, sortBy) ==
    CASE sortBy = "createdAt" -> a.createdAt = b.createdAt
      [] sortBy = "dueDate" -> a.dueDate = b.dueDate
      [] sortBy = "priority" -> a.priority = b.priority

\* C27: stability.  For every sortBy, two displayed todos of the same
\* completion partition with equal sort keys are displayed in the order they
\* have in the state's todos.
C27_Stability ==
    Rendered =>
        \A i, j \in Shown :
            (SamePartition(i, j) /\ EqualKeys(view[i], view[j], prev.filter.sortBy))
                => PositionOf(view[i]) < PositionOf(view[j])

\* C27 witness: two incomplete todos with equal keys, first and third in the
\* state, are displayed second and third, in that order, behind the state's
\* second todo.
C27_Witness ==
    /\ Rendered
    /\ Len(prev.todos) = 3
    /\ view = <<prev.todos[2], prev.todos[1], prev.todos[3]>>
    /\ ~view[2].completed /\ ~view[3].completed
    /\ EqualKeys(view[2], view[3], prev.filter.sortBy)

\* C28: computing the derived view leaves the state as it was: after the
\* render the state's todos are the same todos in the same order as before,
\* with no filter active too, and so are its categories and filter.
C28_ViewLeavesState ==
    Rendered =>
        /\ state.todos = prev.todos
        /\ state = prev

\* C28 witness: with no filter active, the view displays the todos in another
\* order than the state holds them, and the state still holds them in its
\* own order.
C28_Witness ==
    /\ Rendered
    /\ FilteredIsStateTodos(prev)
    /\ Len(prev.todos) = 3
    /\ view # prev.todos
    /\ Len(view) = 3
    /\ state.todos = prev.todos

----------------------------------------------------------------------------
(* Properties of the facade and the todo list, under SpecFacade *)

\* C29: memoization is unobservable.  In every state, whatever actions led
\* to it (Add Category, Delete Category and Load State included), the list
\* the todo list displays is the list the filter and sort pipeline gives when
\* recomputed from the current todos and filter.
C29_MemoUnobservable ==
    view = filteredAndSortedTodos(state).list

\* C29 witness: a render reused the memoized list, after a handler that only
\* added or deleted a category, while displaying todos in another order than
\* the state holds them.
C29_Witness ==
    /\ lastAction.type = "render-memo"
    /\ queue = <<>>
    /\ state.categories # prev.categories
    /\ Len(view) = 2
    /\ view # state.todos

\* the reducer folded over the logged actions, each at its instant
RECURSIVE Fold(_, _)
Fold(s, entries) ==
    IF entries = <<>> THEN s
    ELSE Fold(todoReducer(s, Head(entries), Head(entries).at), Tail(entries))

\* C30: dispatch ordering.  Once the render has run, the state is the reducer
\* folded, from the initial state, over all the actions dispatched so far in
\* dispatch order, several of them dispatched in one handler included: none
\* is dropped, reordered or merged with another.
C30_DispatchOrdering ==
    queue = <<>> => state = Fold(initialState, log)

\* C30 witness: a render reduced two actions dispatched in one handler, Add
\* Todo and then Toggle Todo of the added todo, and the todo is completed.
C30_Witness ==
    /\ queue = <<>>
    /\ lastAction.type = "render"
    /\ lastAction.batch = 2
    /\ Len(log) >= 2
    /\ log[Len(log) - 1].type = "ADD_TODO"
    /\ log[Len(log)].type = "TOGGLE_TODO"
    /\ log[Len(log)].payload = log[Len(log) - 1].payload.id
    /\ Len(state.todos) = Len(prev.todos) + 1
    /\ state.todos[Len(state.todos)].completed

----------------------------------------------------------------------------
(* Properties of the presentation layer, under SpecUI: prev is the state   *)
(* the latest event's handler ran on, state the state after it.            *)

IsEvent(name) == lastAction.type = name

\* the text is empty or holds nothing but spaces
Blank(str) == \A i \in 1..Len(str) : str[i] = " "

\* the event dispatched an action of the type
Dispatched(type) ==
    /\ ~IsEvent("none")
    /\ \E i \in 1..Len(lastAction.dispatched) : lastAction.dispatched[i] = type

\* the text is not empty and has no space at either end
Trimmed(str) == str # <<>> /\ Head(str) # " " /\ str[Len(str)] # " "

\* the text without the spaces around it, when it is not blank
Cores(str) ==
    {core \in {SubSeq(str, a, b) : a \in 1..Len(str), b \in 1..Len(str)} :
        /\ Trimmed(core)
        /\ \E a \in 0..Len(str) :
               /\ a + Len(core) <= Len(str)
               /\ SubSeq(str, a + 1, a + Len(core)) = core
               /\ Blank(SubSeq(str, 1, a))
               /\ Blank(SubSeq(str, a + Len(core) + 1, Len(str)))}

\* a category of s carries the name, compared ignoring case
NameInUse(s, name) ==
    \E i \in 1..Len(s.categories) :
        toLowerCase(s.categories[i].name) = toLowerCase(name)

\* C31: category names stay unique.  Starting from no categories, after any
\* sequence of submissions and deletions in the category manager no two
\* categories carry names that are equal ignoring case; and a submission
\* whose name is empty, holds only spaces, or is in use (ignoring case and
\* the spaces around it) dispatches nothing and leaves the categories as
\* they were.
C31_UniqueCategoryNames ==
    /\ \A i, j \in 1..Len(state.categories) :
           i # j => toLowerCase(state.categories[i].name)
                       # toLowerCase(state.categories[j].name)
    /\ (/\ IsEvent("CategoryManager.handleSubmit")
        /\ \/ Blank(lastAction.input)
           \/ \E name \in Cores(lastAction.input) : NameInUse(prev, name))
          => (lastAction.dispatched = <<>> /\ state = prev)
    /\ (/\ IsEvent("CategoryManager.handleSubmit")
        /\ \E name \in Cores(lastAction.input) : ~NameInUse(prev, name))
          => /\ lastAction.dispatched = <<"ADD_CATEGORY">>
             /\ Len(state.categories) = Len(prev.categories) + 1
             /\ state.categories[Len(state.categories)].name \in Cores(lastAction.input)

\* C31 witness: with two categories stored, one of them from a name typed
\* with spaces around it, a name equal to it but for the case was submitted
\* and refused.
C31_Witness ==
    /\ IsEvent("CategoryManager.handleSubmit")
    /\ lastAction.input = <<"a", "b">>
    /\ Len(prev.categories) = 2
    /\ prev.categories[2].name = <<"A", "B">>
    /\ lastAction.dispatched = <<>>
    /\ state.categories = prev.categories

\* C32: confirmation gating.  Delete Todo and Delete Category are dispatched
\* only by a delete handler whose confirmation dialog the user accepted; a
\* confirmed delete dispatches exactly that action, and on decline nothing is
\* dispatched and the state is unchanged.
C32_ConfirmationGating ==
    /\ Dispatched("DELETE_TODO")
          => (IsEvent("TodoItem.handleDelete") /\ lastAction.confirmed)
    /\ Dispatched("DELETE_CATEGORY")
          => (IsEvent("CategoryManager.handleDelete") /\ lastAction.confirmed)
    /\ IsEvent("TodoItem.handleDelete") =>
          IF lastAction.confirmed
          THEN lastAction.dispatched = <<"DELETE_TODO">>
               /\ lastAction.target \notin Ids(state)
          ELSE lastAction.dispatched = <<>> /\ state = prev
    /\ IsEvent("CategoryManager.handleDelete") =>
          IF lastAction.confirmed
          THEN lastAction.dispatched = <<"DELETE_CATEGORY">>
               /\ lastAction.target \notin CategoryIdsOf(state)
          ELSE lastAction.dispatched = <<>> /\ state = prev

\* C32 witness: the user declined to delete a todo while a category existed;
\* the todo and the category are still there.
C32_Witness ==
    /\ IsEvent("TodoItem.handleDelete") /\ ~lastAction.confirmed
    /\ lastAction.target \in Ids(state)
    /\ Len(state.categories) = 1
    /\ state = prev

\* a confirmed delete of a category removed it
ConfirmedCategoryDelete ==
    /\ IsEvent("CategoryManager.handleDelete") /\ lastAction.confirmed
    /\ lastAction.target \in CategoryIdsOf(prev)
    /\ state.categories = <<>>

\* C33: title validation.  A form submission whose title is empty or holds
\* only spaces dispatches neither Add Todo nor Update Todo and leaves the
\* state as it was; every other submission dispatches one of them; and every
\* todo added or updated through the form has a non-empty, trimmed title.
C33_TitleValidation ==
    /\ \A i \in 1..Len(state.todos) : Trimmed(state.todos[i].title)
    /\ IsEvent("TodoForm.handleSubmit") =>
          IF Blank(lastAction.input)
          THEN lastAction.dispatched = <<>> /\ state = prev
          ELSE /\ lastAction.dispatched
                      = <<IF lastAction.was # Null THEN "UPDATE_TODO" ELSE "ADD_TODO">>
               /\ \A i \in 1..Len(state.todos) :
                      \/ (i <= Len(prev.todos) /\ state.todos[i] = prev.todos[i])
                      \/ state.todos[i].title \in Cores(lastAction.input)

\* C33 witness: a title of spaces was submitted while a todo was open in the
\* form and was refused; the todo, added from a title typed with spaces
\* around it, keeps its trimmed title.
C33_Witness ==
    /\ IsEvent("TodoForm.handleSubmit")
    /\ lastAction.input = <<" ">>
    /\ lastAction.was # Null
    /\ lastAction.dispatched = <<>>
    /\ Len(state.todos) = 1
    /\ state.todos[1].title = <<"A", "b">>
    /\ state = prev

\* the fields the form carries
FormFields == {"title", "description", "priority", "dueDate", "category", "tags"}

\* the id of the todo that was open in the form when the event happened
EditedId == (CHOOSE todo \in lastAction.was : TRUE).id

\* C37: stale edit.  When a todo was opened in the form and then deleted or
\* toggled before the form was submitted, the submission does not re-create
\* the deleted todo (the list is as it was), and of a todo that still exists
\* it changes neither completed, id nor createdAt: only the six fields the
\* form carries, and updatedAt, are written, and only on the edited todo.
C37_StaleEdit ==
    (IsEvent("TodoForm.handleSubmit") /\ lastAction.was # Null) =>
        /\ Len(state.todos) = Len(prev.todos)
        /\ EditedId \notin Ids(prev) => state = prev
        /\ \A i \in 1..Len(prev.todos) :
               /\ state.todos[i].id = prev.todos[i].id
               /\ state.todos[i].completed = prev.todos[i].completed
               /\ state.todos[i].createdAt = prev.todos[i].createdAt
               /\ \A f \in TodoFields \ (FormFields \cup {"updatedAt"}) :
                      state.todos[i][f] = prev.todos[i][f]
               /\ prev.todos[i].id # EditedId => state.todos[i] = prev.todos[i]

\* C37 witness: the todo was toggled after it was opened in the form; the
\* submission wrote the new title and left the todo completed.
C37_Witness ==
    /\ IsEvent("TodoForm.handleSubmit") /\ lastAction.was # Null
    /\ lastAction.dispatched = <<"UPDATE_TODO">>
    /\ Len(prev.todos) = 1
    /\ prev.todos[1].id = EditedId
    /\ prev.todos[1].completed
    /\ ~(CHOOSE todo \in lastAction.was : TRUE).completed
    /\ state.todos[1].completed
    /\ state.todos[1].title = <<"A", "b">>
    /\ state.todos[1].title # prev.todos[1].title

\* the todo was deleted after it was opened in the form; the submission
\* dispatched Update Todo and the list stayed empty
SubmittedAfterDelete ==
    /\ IsEvent("TodoForm.handleSubmit") /\ lastAction.was # Null
    /\ lastAction.dispatched = <<"UPDATE_TODO">>
    /\ prev.todos = <<>>
    /\ state.todos = <<>>
    /\ editing = Null

\* C39: clear filters.  The clear-filters operation yields a filter with an
\* empty searchText, category and priority unset, showCompleted true and
\* sortBy createdAt; it leaves the todos and the categories as they were;
\* and applying it again yields the same state.
C39_ClearFilters ==
    IsEvent("TodoFilter.clearFilters") =>
        /\ state.filter = [searchText |-> <<>>, category |-> Undefined,
                           priority |-> Undefined, showCompleted |-> TRUE,
                           sortBy |-> "createdAt"]
        /\ state.todos = prev.todos
        /\ state.categories = prev.categories
        /\ editing = lastAction.was
        /\ \A t \in now..MaxTime : clearFilters(state, editing, t).state = state

\* C39 witness: the filter had a search text and hid the completed todos, and
\* a todo existed, when the filters were cleared.
C39_Witness ==
    /\ IsEvent("TodoFilter.clearFilters")
    /\ prev.filter.searchText = <<"a">>
    /\ ~prev.filter.showCompleted
    /\ state.filter = initialState.filter
    /\ state.todos = prev.todos /\ state.categories = prev.categories

\* the filters were cleared with a sort key and a category chosen
ClearedSortAndCategory ==
    /\ IsEvent("TodoFilter.clearFilters")
    /\ prev.filter.sortBy = "priority"
    /\ prev.filter.category # Undefined
    /\ state.filter = initialState.filter

====
